---- MODULE Spec2Model ----
(***************************************************************************)
(* Booking system of Seanosss/booking.                                     *)
(*                                                                         *)
(* The PostgreSQL-backed server (src/backend/server.js from line 736,      *)
(* src/backend/db/index.js) is modelled as a state machine over its        *)
(* tables: bookings with their booking_items, catalog_items, classes and   *)
(* the settings row.  Every HTTP handler is one action; the create handler *)
(* is also available one awaited database call at a time, for the          *)
(* behaviours in which two requests interleave.                            *)
(*                                                                         *)
(* Conventions.  A clock time is the label "HH:MM", kept as the pair       *)
(* <<HH, MM>>.  A date is a day of November 2026, kept as the day of the   *)
(* month (2026-11-06 is 6).  Money is kept in cents.  A NULL column is 0   *)
(* for ids and timestamps and the string "null" for text.  The server and  *)
(* the database session share one time zone.                               *)
(***************************************************************************)
EXTENDS Integers, Sequences, FiniteSets, TLC

----------------------------------------------------------------------------
(* Bounds of the model *)

\* booking ids ever issued by generateBookingId
MaxBookings == 2
\* values NOW() takes: the number of writes to the bookings table
MaxNow == 4
\* catalog_items.id values ever issued (SERIAL)
MaxCatalogItems == 1
\* classes.id values ever issued (SERIAL)
MaxClasses == 1
\* class bookings ever created
MaxClassBookings == 2
MaxSlots == 4

(* Program constants *)

\* "maximum of 18 people per session"
MaxPeoplePerItem == 18
\* peopleCount <= 10 selects the *UpTo10 rate
UpTo10Limit == 10

VARIABLES
    bookings,       \* bookings table joined with booking_items: id -> row
    nextBookingId,  \* number of booking ids issued so far
    catalog,        \* catalog_items table: id -> row
    nextCatalogId,  \* catalog_items SERIAL
    classes,        \* classes table: id -> row
    nextClassId,    \* classes SERIAL
    settings,       \* the settings row
    now,            \* the database clock, NOW()
    resp,           \* the HTTP response to the last request handled to completion
    inflight,       \* POST /api/bookings requests being handled concurrently
    call,           \* a function called on its own: its arguments, progress and result
    classBookings,  \* class_bookings table: id -> row
    nextClassBookingId,  \* class_bookings SERIAL
    fileBookings,   \* bookings.json of the file-based server: id -> booking
    nextFileId,     \* number of booking ids the file-based server has generated
    fileSettings,   \* settings.json of the file-based server
    activeAdminTokens,  \* the admin tokens in memory: token -> metadata
    dateNow         \* the server's clock, Date.now(), in units of the token lifetime scale

vars == <<bookings, nextBookingId, catalog, nextCatalogId, classes, nextClassId,
          settings, now, resp, inflight, call, classBookings, nextClassBookingId,
          fileBookings, nextFileId, fileSettings, activeAdminTokens, dateNow>>

\* the class_bookings table and its sequence
classStore == <<classBookings, nextClassBookingId>>

\* the PostgreSQL database
store == <<bookings, nextBookingId, catalog, nextCatalogId, classes, nextClassId,
           settings, now, classStore>>

\* the data file of the file-based server
fileStore == <<fileBookings, nextFileId, fileSettings>>

\* the admin tokens and the clock they expire by
authStore == <<activeAdminTokens, dateNow>>

----------------------------------------------------------------------------
(* Time utilities *)

\* server.js parseTimeToMinutes: "HH:MM" -> HH * 60 + MM
parseTimeToMinutes(timeString) == (timeString[1] * 60) + timeString[2]

\* server.js minutesBetween
minutesBetween(startTime, endTime) ==
    parseTimeToMinutes(endTime) - parseTimeToMinutes(startTime)

\* the comparison with  <=  for  <
SqlTimeLessOrEqual(a, b) == a[1] < b[1] \/ (a[1] = b[1] /\ a[2] <= b[2])

\* PostgreSQL's order on TIME values: by hour, then by minute
SqlTimeLess(a, b) == a[1] < b[1] \/ (a[1] = b[1] /\ a[2] < b[2])

\* Date.getDay() of 2026-11-<date>: 0 = sun ... 6 = sat (2026-11-01 is a Sunday)
getDay(date) == (date - 1) % 7

dayTokens == <<"sun", "mon", "tue", "wed", "thu", "fri", "sat">>

NoTime == <<>>
NoDate == 0
NULL == "null"
\* no pure function is being called
NoCall == [fn |-> "none"]
Undefined == "undefined"

----------------------------------------------------------------------------
(* Settings and pricing *)

DEFAULT_OPERATING_HOURS == [startTime |-> <<7, 0>>, endTime |-> <<22, 0>>]

DEFAULT_PEAK_SCHEDULE ==
    [days |-> {"fri", "sat", "sun"}, startTime |-> <<18, 0>>, endTime |-> <<23, 0>>]

defaultSettings ==
    [autoConfirm |-> FALSE,
     operatingHours |-> DEFAULT_OPERATING_HOURS,
     pricing |-> [normalUpTo10 |-> 25000, normalUpTo18 |-> 32000,
                  peakUpTo10 |-> 28000, peakUpTo18 |-> 35000,
                  peakSchedule |-> DEFAULT_PEAK_SCHEDULE]]

\* String.prototype.toLowerCase on the day names the model uses
toLowerCase(day) ==
    CASE day = "Fri" -> "fri"
      [] day = "Sat" -> "sat"
      [] day = "Sun" -> "sun"
      [] OTHER -> day

\* server.js resolvePeakSchedule; a schedule that is missing has no days and no times
resolvePeakSchedule(st) ==
    LET schedule == st.pricing.peakSchedule
    IN  [days |-> {toLowerCase(day) : day \in schedule.days},
         startTime |-> IF schedule.startTime = NoTime THEN <<18, 0>> ELSE schedule.startTime,
         endTime |-> IF schedule.endTime = NoTime THEN <<23, 0>> ELSE schedule.endTime]

\* determinePeriodType with the window closed at both ends
determinePeriodTypeClosed(date, startTime, endTime, st) ==
    LET schedule == resolvePeakSchedule(st)
    IN  IF schedule.days = {} \/ date = NoDate THEN "normal"
        ELSE IF dayTokens[getDay(date) + 1] \notin schedule.days THEN "normal"
        ELSE IF /\ parseTimeToMinutes(startTime) <= parseTimeToMinutes(schedule.endTime)
                /\ parseTimeToMinutes(endTime) >= parseTimeToMinutes(schedule.startTime)
        THEN "peak"
        ELSE "normal"

\* server.js determinePeriodType
determinePeriodType(date, startTime, endTime, st) ==
    LET schedule == resolvePeakSchedule(st)
        dayToken == dayTokens[getDay(date) + 1]
        startMinutes == parseTimeToMinutes(startTime)
        endMinutes == parseTimeToMinutes(endTime)
        peakStart == parseTimeToMinutes(schedule.startTime)
        peakEnd == parseTimeToMinutes(schedule.endTime)
    IN  IF schedule.days = {} THEN "normal"
        ELSE IF date = NoDate THEN "normal"
        ELSE IF dayToken \notin schedule.days THEN "normal"
        ELSE IF startMinutes < peakEnd /\ endMinutes > peakStart THEN "peak"
        ELSE "normal"

\* server.js resolveHourlyRate; -1 stands for the thrown Error
resolveHourlyRate(pricing, peopleCount, periodType) ==
    IF peopleCount > MaxPeoplePerItem THEN -1
    ELSE IF peopleCount <= UpTo10Limit
         THEN (IF periodType = "peak" THEN pricing.peakUpTo10 ELSE pricing.normalUpTo10)
         ELSE (IF periodType = "peak" THEN pricing.peakUpTo18 ELSE pricing.normalUpTo18)

\* The <<rate, duration>> pairs, among the rates the model uses and durations of up
\* to 240 minutes, for which the binary64 value of rate * (duration / 60) * 100 lies
\* just below a half that the exact product reaches: 250.5 * (9 / 60) * 100 is
\* 3757.4999999999995, and Math.round takes it to 3757.
Binary64BelowHalf == {25050} \X {9, 17, 73, 129, 131, 151}

\* server.js calculateRoomRentalPrice, in cents: Math.round(rate * (duration / 60) * 100),
\* for a rate in cents; -1 stands for the Error thrown by resolveHourlyRate
calculateRoomRentalPrice(duration, peopleCount, periodType, st) ==
    LET rate == resolveHourlyRate(st.pricing, peopleCount, periodType)
    IN  IF rate < 0 THEN -1
        ELSE IF <<rate, duration>> \in Binary64BelowHalf
        THEN (rate * duration) \div 60
        ELSE ((rate * duration * 2) + 60) \div 120

----------------------------------------------------------------------------
(* Queries of db/index.js, over the tables they read *)

\* the status filter with 'cancelled' let through
AnyStatus == {"pending", "confirmed", "cancelled"}

\* b.status IN ('pending', 'confirmed')
ActiveStatuses == {"pending", "confirmed"}

\* the first query with  b.status = 'confirmed'  for  b.status IN ('pending', 'confirmed')
RoomBookingConflictsConfirmedOnly(bk, date, startTime, endTime, excludeBookingId, catalogItemId) ==
    {<<b, i>> \in UNION {{b2} \X (1..Len(bk[b2].items)) : b2 \in DOMAIN bk} :
        LET bi == bk[b].items[i]
        IN  /\ bi.date = date
            /\ bi.itemType = "room_rental"
            /\ bk[b].status = "confirmed"
            /\ SqlTimeLess(bi.startTime, endTime)
            /\ SqlTimeLess(startTime, bi.endTime)
            /\ (excludeBookingId # 0 => b # excludeBookingId)
            /\ (catalogItemId # 0 =>
                    (bi.catalogItemId = catalogItemId \/ bi.catalogItemId = 0))}

\* the first query without its  b.id <> excludeBookingId  condition
RoomBookingConflictsOwnIncluded(bk, date, startTime, endTime, excludeBookingId, catalogItemId) ==
    {<<b, i>> \in UNION {{b2} \X (1..Len(bk[b2].items)) : b2 \in DOMAIN bk} :
        LET bi == bk[b].items[i]
        IN  /\ bi.date = date
            /\ bi.itemType = "room_rental"
            /\ bk[b].status \in ActiveStatuses
            /\ SqlTimeLess(bi.startTime, endTime)
            /\ SqlTimeLess(startTime, bi.endTime)
            /\ (catalogItemId # 0 =>
                    (bi.catalogItemId = catalogItemId \/ bi.catalogItemId = 0))}

\* getRoomConflicts, first query: booking_items joined with bookings
RoomBookingConflicts(bk, date, startTime, endTime, excludeBookingId, catalogItemId) ==
    {<<b, i>> \in UNION {{b2} \X (1..Len(bk[b2].items)) : b2 \in DOMAIN bk} :
        LET bi == bk[b].items[i]
        IN  /\ bi.date = date
            /\ bi.itemType = "room_rental"
            /\ bk[b].status \in ActiveStatuses
            /\ SqlTimeLess(bi.startTime, endTime)
            /\ SqlTimeLess(startTime, bi.endTime)
            /\ (excludeBookingId # 0 => b # excludeBookingId)
            /\ (catalogItemId # 0 =>
                    (bi.catalogItemId = catalogItemId \/ bi.catalogItemId = 0))}

\* a room query that leaves the classes out
RoomClassConflictsNone(cls, date, startTime, endTime) ==
    {c \in DOMAIN cls : FALSE}

\* getRoomConflicts, second query: classes of that date
RoomClassConflicts(cls, date, startTime, endTime) ==
    {c \in DOMAIN cls :
        /\ cls[c].date = date
        /\ SqlTimeLess(cls[c].startTime, endTime)
        /\ SqlTimeLess(startTime, cls[c].endTime)}

\* getRoomConflicts: [...bookingConflicts, ...classConflicts], as the number of rows
getRoomConflicts(bk, cls, date, startTime, endTime, excludeBookingId, catalogItemId) ==
    Cardinality(RoomBookingConflicts(bk, date, startTime, endTime,
                                     excludeBookingId, catalogItemId))
    + Cardinality(RoomClassConflicts(cls, date, startTime, endTime))

RECURSIVE SumPeople(_, _)
\* SUM(bi.people_count) over the items of one booking that reference catalogItemId
SumPeople(items, catalogItemId) ==
    IF items = <<>> THEN 0
    ELSE (IF Head(items).catalogItemId = catalogItemId THEN Head(items).peopleCount ELSE 0)
         + SumPeople(Tail(items), catalogItemId)

RECURSIVE SumOver(_, _, _)
SumOver(bk, ids, catalogItemId) ==
    IF ids = {} THEN 0
    ELSE LET b == CHOOSE x \in ids : TRUE
         IN  SumPeople(bk[b].items, catalogItemId) + SumOver(bk, ids \ {b}, catalogItemId)

\* the usage query without its status filter
getCatalogItemCapacityUsageAnyStatus(bk, catalogItemId, excludeBookingId) ==
    SumOver(bk,
            {b \in DOMAIN bk : excludeBookingId # 0 => b # excludeBookingId},
            catalogItemId)

\* getCatalogItemCapacityUsage
getCatalogItemCapacityUsage(bk, catalogItemId, excludeBookingId) ==
    SumOver(bk,
            {b \in DOMAIN bk : /\ bk[b].status \in ActiveStatuses
                               /\ (excludeBookingId # 0 => b # excludeBookingId)},
            catalogItemId)

----------------------------------------------------------------------------
(* POST /api/bookings (server.js 2370-2588), one awaited call at a time.   *)
(* A handler's local state h records the await it is about to perform:     *)
(*   loadSettings, getCatalogItemById, getCatalogItemCapacityUsage,        *)
(*   roomQuery and classQuery (the two queries of checkRentalAvailability),*)
(*   createBooking; "done" once the response is sent.                      *)

CatalogIds == 1..MaxCatalogItems

NoItem ==
    [catalogItemId |-> 0, itemType |-> "", date |-> NoDate, startTime |-> NoTime,
     endTime |-> NoTime, duration |-> 0, peopleCount |-> 0, capacity |-> 0, price |-> 0]

\* the handler's locals on entry, before its first await
NewHandler(req) ==
    [phase |-> "loadSettings", req |-> req, settings |-> defaultSettings, idx |-> 1,
     normalizedItems |-> <<>>, catalogUsage |-> [c \in CatalogIds |-> 0],
     cur |-> NoItem, bookingConflicts |-> 0, code |-> 0, err |-> "", bookingId |-> 0]

\* no request in hand
Idle == [phase |-> "idle", code |-> 0]

respondValidationError(h, message) ==
    [h EXCEPT !.phase = "done", !.code = 400, !.err = message]

\* lines 2400-2403: normalizedSharedPeopleCount, 0 for null
normalizedSharedPeopleCount(req) ==
    IF req.sharedPeopleCount > 0
    THEN (IF req.sharedPeopleCount < MaxPeoplePerItem
          THEN req.sharedPeopleCount ELSE MaxPeoplePerItem)
    ELSE 0

\* lines 2426-2434: the item's headcount; a count that is no positive integer is 0
ItemPeopleCount(req, item) ==
    LET shared == normalizedSharedPeopleCount(req)
        defaultPeopleCount == IF shared # 0 THEN shared ELSE 1
    IN  IF item.peopleCount > 0 THEN item.peopleCount ELSE defaultPeopleCount

\* the capacity test without the seats the request has already taken
SeatsExceededNoTally(usedCapacity, alreadySelected, peopleCount, capacity) ==
    usedCapacity + peopleCount > capacity

\* the capacity test with a full house counted as exceeded
SeatsExceededAtCapacity(usedCapacity, alreadySelected, peopleCount, capacity) ==
    usedCapacity + alreadySelected + peopleCount >= capacity

\* line 2456: usedCapacity + alreadySelected + peopleCount > catalogItem.capacity
SeatsExceeded(usedCapacity, alreadySelected, peopleCount, capacity) ==
    usedCapacity + alreadySelected + peopleCount > capacity

\* hasInPayloadRoomConflict with ranges that touch taken for overlapping
hasInPayloadRoomConflictClosed(items, date, startTime, endTime) ==
    \E i \in 1..Len(items) :
        /\ items[i].itemType = "room_rental"
        /\ items[i].date = date
        /\ parseTimeToMinutes(items[i].startTime) <= parseTimeToMinutes(endTime)
        /\ parseTimeToMinutes(items[i].endTime) >= parseTimeToMinutes(startTime)

\* server.js hasInPayloadRoomConflict
hasInPayloadRoomConflict(items, date, startTime, endTime) ==
    LET targetStart == parseTimeToMinutes(startTime)
        targetEnd == parseTimeToMinutes(endTime)
    IN  \E i \in 1..Len(items) :
            /\ items[i].itemType = "room_rental"
            /\ items[i].date = date
            /\ parseTimeToMinutes(items[i].startTime) < targetEnd
            /\ parseTimeToMinutes(items[i].endTime) > targetStart

RECURSIVE BeginItem(_)

\* PushItem with the tag 'normal' for the items that are no room rental
PushItemTaggedNormal(h) ==
    LET c == h.cur
        periodType == IF c.itemType = "room_rental"
                      THEN determinePeriodType(c.date, c.startTime, c.endTime, h.settings)
                      ELSE "normal"
        item == h.req.items[h.idx]
        catalogPrice == IF c.catalogItemId # 0 THEN c.price ELSE item.price
        price == IF c.itemType = "room_rental"
                 THEN calculateRoomRentalPrice(c.duration, c.peopleCount, periodType, h.settings)
                 ELSE catalogPrice * c.peopleCount
    IN  IF c.itemType # "room_rental" /\ catalogPrice < 0
        THEN respondValidationError(h, "invalid catalog price")
        ELSE BeginItem([h EXCEPT
                !.normalizedItems = Append(@,
                    [catalogItemId |-> c.catalogItemId, itemType |-> c.itemType,
                     date |-> c.date, startTime |-> c.startTime, endTime |-> c.endTime,
                     duration |-> c.duration, peopleCount |-> c.peopleCount,
                     price |-> price, periodType |-> periodType]),
                !.idx = @ + 1,
                !.cur = NoItem])

\* lines 2521-2543: price the item, push it, go on with the next one
PushItem(h) ==
    LET c == h.cur
        periodType == IF c.itemType = "room_rental"
                      THEN determinePeriodType(c.date, c.startTime, c.endTime, h.settings)
                      ELSE "catalog"
        item == h.req.items[h.idx]
        catalogPrice == IF c.catalogItemId # 0 THEN c.price ELSE item.price
        price == IF c.itemType = "room_rental"
                 THEN calculateRoomRentalPrice(c.duration, c.peopleCount, periodType, h.settings)
                 ELSE catalogPrice * c.peopleCount
    IN  IF c.itemType # "room_rental" /\ catalogPrice < 0
        THEN respondValidationError(h, "invalid catalog price")
        ELSE BeginItem([h EXCEPT
                !.normalizedItems = Append(@,
                    [catalogItemId |-> c.catalogItemId, itemType |-> c.itemType,
                     date |-> c.date, startTime |-> c.startTime, endTime |-> c.endTime,
                     duration |-> c.duration, peopleCount |-> c.peopleCount,
                     price |-> price, periodType |-> periodType]),
                !.idx = @ + 1,
                !.cur = NoItem])

\* lines 2483-2519, up to the await of checkRentalAvailability
CheckSchedule(h) ==
    LET c == h.cur
        operatingHours == h.settings.operatingHours
    IN  IF c.duration <= 0
        THEN respondValidationError(h, "end time must be after start time")
        ELSE IF c.itemType = "room_rental"
        THEN IF \/ parseTimeToMinutes(c.startTime) < parseTimeToMinutes(operatingHours.startTime)
                \/ parseTimeToMinutes(c.endTime) > parseTimeToMinutes(operatingHours.endTime)
             THEN respondValidationError(h, "selected time must fall within studio hours")
             ELSE IF hasInPayloadRoomConflict(h.normalizedItems, c.date, c.startTime, c.endTime)
             THEN respondValidationError(h, "overlaps with another session in your booking")
             ELSE [h EXCEPT !.phase = "roomQuery"]
        ELSE PushItem(h)

\* lines 2422-2481 for the item at h.idx, up to its first await
BeginItem(h) ==
    IF h.idx > Len(h.req.items)
    THEN [h EXCEPT !.phase = "createBooking"]
    ELSE LET item == h.req.items[h.idx]
             peopleCount == ItemPeopleCount(h.req, item)
         IN  IF peopleCount > MaxPeoplePerItem
             THEN respondValidationError(h, "maximum of 18 people per session")
             ELSE IF item.catalogItemId # 0
             THEN [h EXCEPT !.phase = "getCatalogItemById",
                            !.cur = [NoItem EXCEPT !.peopleCount = peopleCount]]
             ELSE IF item.date = NoDate \/ item.startTime = NoTime \/ item.endTime = NoTime
             THEN respondValidationError(h, "date, startTime, and endTime are required")
             ELSE CheckSchedule([h EXCEPT !.cur =
                    [NoItem EXCEPT
                        !.itemType = IF item.type = "" THEN "room_rental" ELSE item.type,
                        !.date = item.date,
                        !.startTime = item.startTime,
                        !.endTime = item.endTime,
                        !.duration = minutesBetween(item.startTime, item.endTime),
                        !.peopleCount = peopleCount]])

\* One awaited read of the handler against the tables as they are now, and the
\* synchronous code up to the next await.
CreateStep(h, bk, cat, cls, st) ==
    CASE h.phase = "loadSettings" ->
            IF Len(h.req.items) = 0
            THEN respondValidationError(h, "At least one booking item is required")
            ELSE BeginItem([h EXCEPT !.settings = st])
      [] h.phase = "getCatalogItemById" ->
            LET id == h.req.items[h.idx].catalogItemId
            IN  IF id \notin DOMAIN cat
                THEN respondValidationError(h, "linked item not found")
                ELSE [h EXCEPT !.phase = "getCatalogItemCapacityUsage",
                               !.cur = [@ EXCEPT !.catalogItemId = id,
                                                 !.itemType = cat[id].type,
                                                 !.date = cat[id].date,
                                                 !.startTime = cat[id].startTime,
                                                 !.endTime = cat[id].endTime,
                                                 !.duration = cat[id].duration,
                                                 !.capacity = cat[id].capacity,
                                                 !.price = cat[id].price]]
      [] h.phase = "getCatalogItemCapacityUsage" ->
            LET id == h.cur.catalogItemId
                usedCapacity == getCatalogItemCapacityUsage(bk, id, 0)
                alreadySelected == h.catalogUsage[id]
            IN  IF SeatsExceeded(usedCapacity, alreadySelected, h.cur.peopleCount,
                                 h.cur.capacity)
                THEN respondValidationError(h, "seats remaining")
                ELSE CheckSchedule([h EXCEPT
                        !.catalogUsage[id] = alreadySelected + h.cur.peopleCount])
      [] h.phase = "roomQuery" ->
            [h EXCEPT !.phase = "classQuery",
                      !.bookingConflicts = Cardinality(RoomBookingConflicts(
                            bk, h.cur.date, h.cur.startTime, h.cur.endTime, 0, 0))]
      [] h.phase = "classQuery" ->
            IF h.bookingConflicts + Cardinality(RoomClassConflicts(
                    cls, h.cur.date, h.cur.startTime, h.cur.endTime)) # 0
            THEN respondValidationError(h, "time conflict")
            ELSE PushItem([h EXCEPT !.bookingConflicts = 0])
      [] OTHER -> h

RECURSIVE RunCreate(_, _, _, _, _)
\* the handler run to its createBooking call or to its error response with no
\* other request in between
RunCreate(h, bk, cat, cls, st) ==
    IF h.phase \in {"createBooking", "done", "idle"} THEN h
    ELSE RunCreate(CreateStep(h, bk, cat, cls, st), bk, cat, cls, st)

RECURSIVE SumPrice(_)
SumPrice(items) == IF items = <<>> THEN 0 ELSE Head(items).price + SumPrice(Tail(items))

\* createBooking with the price of the first item as the total
createBookingFirstItemPrice(status, items, clock) ==
    [status |-> status,
     items |-> items,
     totalPrice |-> Head(items).price,
     updatedAt |-> clock,
     confirmedAt |-> IF status = "confirmed" THEN clock ELSE 0,
     cancelledAt |-> 0,
     adminNotes |-> NULL]

\* db/index.js createBooking: the bookings row and its booking_items rows
createBooking(status, items, clock) ==
    [status |-> status,
     items |-> items,
     totalPrice |-> SumPrice(items),
     updatedAt |-> clock,
     confirmedAt |-> IF status = "confirmed" THEN clock ELSE 0,
     cancelledAt |-> 0,
     adminNotes |-> NULL]

\* f with the pair id -> row added
Insert(f, id, row) == [x \in (DOMAIN f) \cup {id} |-> IF x = id THEN row ELSE f[x]]

\* f without id
Remove(f, id) == [x \in (DOMAIN f) \ {id} |-> f[x]]

----------------------------------------------------------------------------
(* The handlers, each run to completion *)

\* the error messages that report a clash with stored data
ConflictMessages == {"time conflict", "seats remaining", "Cannot confirm booking"}

\* what the client can tell from an error response: a conflict, or another 4xx
ErrorKind(code, message) ==
    IF code < 400 THEN ""
    ELSE IF code >= 500 THEN "server"
    ELSE IF message \in ConflictMessages THEN "conflict"
    ELSE IF code = 404 THEN "not_found"
    ELSE "validation"

Respond(code, message) == resp' = [code |-> code, err |-> ErrorKind(code, message)]

\* POST /api/bookings
PostBooking(req) ==
    LET h == RunCreate(NewHandler(req), bookings, catalog, classes, settings)
        id == nextBookingId + 1
        status == IF h.settings.autoConfirm THEN "confirmed" ELSE "pending"
    IN  IF h.phase = "done"
        THEN /\ Respond(h.code, h.err)
             /\ UNCHANGED <<authStore, store, fileStore, inflight, call>>
        ELSE /\ nextBookingId < MaxBookings
             /\ now < MaxNow
             /\ now' = now + 1
             /\ nextBookingId' = id
             /\ bookings' = Insert(bookings, id, createBooking(status, h.normalizedItems, now'))
             /\ Respond(201, "")
             /\ UNCHANGED <<authStore, classStore, fileStore, catalog, nextCatalogId, classes, nextClassId, settings, inflight, call>>

\* the list of statuses with one more that the handler would let through
validStatusesAndPaid == {"pending", "confirmed", "cancelled", "paid"}

validStatuses == {"pending", "confirmed", "cancelled"}

\* the re-validation without its capacity check
ConfirmRejectedRoomOnly(bk, cat, cls, st, id) ==
    \E i \in 1..Len(bk[id].items) :
        LET item == bk[id].items[i]
        IN  /\ item.itemType = "room_rental"
            /\ getRoomConflicts(bk, cls, item.date, item.startTime, item.endTime, id, 0) > 0

\* server.js 1635-1671: the re-validation of a confirmation; TRUE when it rejects
ConfirmRejected(bk, cat, cls, st, id) ==
    \E i \in 1..Len(bk[id].items) :
        LET item == bk[id].items[i]
        IN  \/ /\ item.itemType = "room_rental"
               /\ getRoomConflicts(bk, cls, item.date, item.startTime, item.endTime, id, 0) > 0
            \/ /\ item.catalogItemId # 0
               /\ \/ item.catalogItemId \notin DOMAIN cat
                  \/ getCatalogItemCapacityUsage(bk, item.catalogItemId, id) + item.peopleCount
                        > cat[item.catalogItemId].capacity
            \/ /\ item.itemType = "room_rental"
               /\ resolveHourlyRate(st.pricing, item.peopleCount, item.periodType) < 0

\* db/index.js updateBookingStatus: the UPDATE of one bookings row
updateBookingStatus(row, status, adminNotes, clock) ==
    [row EXCEPT !.status = status,
                !.updatedAt = clock,
                !.adminNotes = IF adminNotes # Undefined THEN adminNotes ELSE @,
                !.confirmedAt = IF status = "confirmed" THEN clock ELSE @,
                !.cancelledAt = IF status = "cancelled" THEN clock ELSE @]

\* whether PATCH re-validates: server.js 1635
NeedsRevalidation(status, current) == status = "confirmed" /\ current # "confirmed"

\* PATCH /api/bookings/:id/status
PatchBookingStatus(id, status, adminNotes) ==
    IF status \notin validStatuses
    THEN /\ Respond(400, "Invalid status")
         /\ UNCHANGED <<authStore, store, fileStore, inflight, call>>
    ELSE IF id \notin DOMAIN bookings
    THEN /\ Respond(404, "Booking not found")
         /\ UNCHANGED <<authStore, store, fileStore, inflight, call>>
    ELSE IF /\ NeedsRevalidation(status, bookings[id].status)
            /\ ConfirmRejected(bookings, catalog, classes, settings, id)
    THEN /\ Respond(400, "Cannot confirm booking")
         /\ UNCHANGED <<authStore, store, fileStore, inflight, call>>
    ELSE /\ now < MaxNow
         /\ now' = now + 1
         /\ bookings' = [bookings EXCEPT
                ![id] = updateBookingStatus(@, status, adminNotes, now')]
         /\ Respond(200, "")
         /\ UNCHANGED <<authStore, classStore, fileStore, nextBookingId, catalog, nextCatalogId, classes, nextClassId,
                        settings, inflight, call>>

\* DELETE /api/bookings/:id (deleteBookingHandler, db deleteBooking)
DeleteBooking(id) ==
    IF id \notin DOMAIN bookings
    THEN /\ Respond(404, "Booking not found")
         /\ UNCHANGED <<authStore, store, fileStore, inflight, call>>
    ELSE /\ bookings' = Remove(bookings, id)
         /\ Respond(200, "")
         /\ UNCHANGED <<authStore, classStore, fileStore, nextBookingId, catalog, nextCatalogId, classes, nextClassId,
                        settings, now, inflight, call>>

\* server.js minutesToTimeString
minutesToTimeString(totalMinutes) == <<totalMinutes \div 60, totalMinutes % 60>>

catalogTypes == {"workshop_class", "room_rental"}

\* validateCatalogItemPayload: the duration it settles on
PayloadDuration(payload) ==
    IF payload.duration > 0 THEN payload.duration
    ELSE IF payload.startTime # NoTime /\ payload.endTime # NoTime
    THEN minutesBetween(payload.startTime, payload.endTime)
    ELSE payload.duration

\* validateCatalogItemPayload: TRUE when it returns errors
CatalogPayloadErrors(payload) ==
    \/ payload.type \notin catalogTypes
    \/ payload.startTime = NoTime
    \/ (payload.endTime = NoTime /\ payload.duration = 0)
    \/ PayloadDuration(payload) <= 0
    \/ payload.price < 0
    \/ payload.capacity <= 0

\* validateCatalogItemPayload: its data
validateCatalogItemPayload(payload) ==
    [type |-> payload.type,
     date |-> payload.date,
     startTime |-> payload.startTime,
     endTime |-> IF payload.endTime = NoTime
                 THEN minutesToTimeString(parseTimeToMinutes(payload.startTime)
                                          + PayloadDuration(payload))
                 ELSE payload.endTime,
     duration |-> PayloadDuration(payload),
     price |-> payload.price,
     capacity |-> payload.capacity]

\* POST /api/admin/items
CreateCatalogItem(payload) ==
    IF CatalogPayloadErrors(payload)
    THEN /\ Respond(400, "invalid item")
         /\ UNCHANGED <<authStore, store, fileStore, inflight, call>>
    ELSE /\ nextCatalogId < MaxCatalogItems
         /\ nextCatalogId' = nextCatalogId + 1
         /\ catalog' = Insert(catalog, nextCatalogId', validateCatalogItemPayload(payload))
         /\ Respond(201, "")
         /\ UNCHANGED <<authStore, classStore, fileStore, bookings, nextBookingId, classes, nextClassId, settings, now, inflight, call>>

\* PUT /api/admin/items/:id
UpdateCatalogItem(id, payload) ==
    IF CatalogPayloadErrors(payload)
    THEN /\ Respond(400, "invalid item")
         /\ UNCHANGED <<authStore, store, fileStore, inflight, call>>
    ELSE IF id \notin DOMAIN catalog
    THEN /\ Respond(404, "Item not found")
         /\ UNCHANGED <<authStore, store, fileStore, inflight, call>>
    ELSE /\ catalog' = [catalog EXCEPT ![id] = validateCatalogItemPayload(payload)]
         /\ Respond(200, "")
         /\ UNCHANGED <<authStore, classStore, fileStore, bookings, nextBookingId, nextCatalogId, classes, nextClassId,
                        settings, now, inflight, call>>

\* booking_items.catalog_item_id ... ON DELETE SET NULL
SetNull(items, id) ==
    [i \in 1..Len(items) |->
        IF items[i].catalogItemId = id THEN [items[i] EXCEPT !.catalogItemId = 0]
        ELSE items[i]]

\* DELETE /api/admin/items/:id
DeleteCatalogItem(id) ==
    IF id \notin DOMAIN catalog
    THEN /\ Respond(404, "Item not found")
         /\ UNCHANGED <<authStore, store, fileStore, inflight, call>>
    ELSE /\ catalog' = Remove(catalog, id)
         /\ bookings' = [b \in DOMAIN bookings |->
                            [bookings[b] EXCEPT !.items = SetNull(@, id)]]
         /\ Respond(200, "")
         /\ UNCHANGED <<authStore, classStore, fileStore, nextBookingId, nextCatalogId, classes, nextClassId, settings,
                        now, inflight, call>>

\* validateClassPayload: TRUE when it returns errors
ClassPayloadErrors(payload) ==
    \/ ~ SqlTimeLess(payload.startTime, payload.endTime)
    \/ payload.capacity <= 0

\* db/index.js getClassConflicts
getClassConflicts(cls, date, startTime, endTime, excludeClassId) ==
    {c \in DOMAIN cls :
        /\ (cls[c].date < date \/ (cls[c].date = date /\ SqlTimeLess(cls[c].startTime, endTime)))
        /\ (cls[c].date > date \/ (cls[c].date = date /\ SqlTimeLess(startTime, cls[c].endTime)))
        /\ (excludeClassId # 0 => c # excludeClassId)}

\* db/index.js checkClassScheduleAvailability: its "available"
checkClassScheduleAvailability(bk, cls, date, startTime, endTime, excludeClassId) ==
    /\ getRoomConflicts(bk, cls, date, startTime, endTime, 0, 0) = 0
    /\ getClassConflicts(cls, date, startTime, endTime, excludeClassId) = {}

\* POST /api/admin/classes
CreateClass(payload) ==
    IF ClassPayloadErrors(payload)
    THEN /\ Respond(400, "invalid class")
         /\ UNCHANGED <<authStore, store, fileStore, inflight, call>>
    ELSE IF ~ checkClassScheduleAvailability(bookings, classes, payload.date,
                                             payload.startTime, payload.endTime, 0)
    THEN /\ Respond(400, "time conflict")
         /\ UNCHANGED <<authStore, store, fileStore, inflight, call>>
    ELSE /\ nextClassId < MaxClasses
         /\ nextClassId' = nextClassId + 1
         /\ classes' = Insert(classes, nextClassId', payload)
         /\ Respond(201, "")
         /\ UNCHANGED <<authStore, classStore, fileStore, bookings, nextBookingId, catalog, nextCatalogId, settings, now, inflight, call>>

\* class_bookings.class_id ... ON DELETE CASCADE
CascadeClass(cb, classId) ==
    [id \in {x \in DOMAIN cb : cb[x].classId # classId} |-> cb[id]]

\* DELETE /api/admin/classes/:id
DeleteClass(id) ==
    IF id \notin DOMAIN classes
    THEN /\ Respond(404, "Class not found")
         /\ UNCHANGED <<authStore, store, fileStore, inflight, call>>
    ELSE /\ classes' = Remove(classes, id)
         /\ classBookings' = CascadeClass(classBookings, id)
         /\ Respond(200, "")
         /\ UNCHANGED <<authStore, nextClassBookingId, fileStore, bookings, nextBookingId, catalog,
                        nextCatalogId, nextClassId, settings, now, inflight, call>>

\* PUT /api/admin/classes/:id
UpdateClass(id, payload) ==
    IF ClassPayloadErrors(payload)
    THEN /\ Respond(400, "invalid class")
         /\ UNCHANGED <<authStore, store, fileStore, inflight, call>>
    ELSE IF ~ checkClassScheduleAvailability(bookings, classes, payload.date,
                                             payload.startTime, payload.endTime, id)
    THEN /\ Respond(400, "time conflict")
         /\ UNCHANGED <<authStore, store, fileStore, inflight, call>>
    ELSE IF id \notin DOMAIN classes
    THEN /\ Respond(404, "Class not found")
         /\ UNCHANGED <<authStore, store, fileStore, inflight, call>>
    ELSE /\ classes' = [classes EXCEPT ![id] = payload]
         /\ Respond(200, "")
         /\ UNCHANGED <<authStore, classStore, fileStore, bookings, nextBookingId, catalog,
                        nextCatalogId, nextClassId, settings, now, inflight, call>>

----------------------------------------------------------------------------
(* Class bookings *)

RECURSIVE SumClassPeople(_, _)
\* SUM(people_count) over the class_bookings rows ids
SumClassPeople(cb, ids) ==
    IF ids = {} THEN 0
    ELSE LET id == CHOOSE x \in ids : TRUE
         IN  cb[id].peopleCount + SumClassPeople(cb, ids \ {id})

\* db/index.js getClassCapacityUsage; excludeBookingId 0 for null
getClassCapacityUsage(cb, classId, excludeBookingId) ==
    SumClassPeople(cb, {id \in DOMAIN cb :
        /\ cb[id].classId = classId
        /\ cb[id].status \in {"pending", "confirmed"}
        /\ (excludeBookingId # 0 => id # excludeBookingId)})

\* validateClassBookingPayload: TRUE when it returns errors
ClassBookingPayloadErrors(payload) ==
    payload.classId <= 0 \/ payload.peopleCount <= 0

\* Boolean(payload.isTrialOnly) as stored with the class
isTrialOnly(cls) == "isTrialOnly" \in DOMAIN cls /\ cls.isTrialOnly

\* POST /api/class-bookings
PostClassBooking(payload) ==
    IF ClassBookingPayloadErrors(payload)
    THEN /\ Respond(400, "invalid class booking")
         /\ UNCHANGED <<authStore, store, fileStore, inflight, call>>
    ELSE IF payload.classId \notin DOMAIN classes
    THEN /\ Respond(404, "Class not found")
         /\ UNCHANGED <<authStore, store, fileStore, inflight, call>>
    ELSE IF isTrialOnly(classes[payload.classId])
    THEN /\ Respond(400, "This class is only available through trial plans.")
         /\ UNCHANGED <<authStore, store, fileStore, inflight, call>>
    ELSE IF getClassCapacityUsage(classBookings, payload.classId, 0) + payload.peopleCount
                > classes[payload.classId].capacity
    THEN /\ Respond(400, "seats remaining")
         /\ UNCHANGED <<authStore, store, fileStore, inflight, call>>
    ELSE /\ nextClassBookingId < MaxClassBookings
         /\ nextClassBookingId' = nextClassBookingId + 1
         /\ classBookings' = Insert(classBookings, nextClassBookingId',
                [classId |-> payload.classId, peopleCount |-> payload.peopleCount,
                 status |-> "pending"])
         /\ Respond(201, "")
         /\ UNCHANGED <<authStore, fileStore, bookings, nextBookingId, catalog, nextCatalogId,
                        classes, nextClassId, settings, now, inflight, call>>

\* PATCH /api/admin/class-bookings/:id/status
PatchClassBookingStatus(id, status) ==
    IF status \notin validStatuses
    THEN /\ Respond(400, "Invalid status")
         /\ UNCHANGED <<authStore, store, fileStore, inflight, call>>
    ELSE IF id \notin DOMAIN classBookings
    THEN /\ Respond(404, "Class booking not found")
         /\ UNCHANGED <<authStore, store, fileStore, inflight, call>>
    ELSE IF /\ status = "confirmed"
            /\ classBookings[id].status # "confirmed"
            /\ getClassCapacityUsage(classBookings, classBookings[id].classId, id)
                    + classBookings[id].peopleCount
                    > classes[classBookings[id].classId].capacity
    THEN /\ Respond(400, "seats remaining")
         /\ UNCHANGED <<authStore, store, fileStore, inflight, call>>
    ELSE /\ classBookings' = [classBookings EXCEPT ![id].status = status]
         /\ Respond(200, "")
         /\ UNCHANGED <<authStore, nextClassBookingId, fileStore, bookings, nextBookingId, catalog,
                        nextCatalogId, classes, nextClassId, settings, now, inflight, call>>

\* DELETE /api/admin/class-bookings/:id
DeleteClassBooking(id) ==
    IF id \notin DOMAIN classBookings
    THEN /\ Respond(404, "Class booking not found")
         /\ UNCHANGED <<authStore, store, fileStore, inflight, call>>
    ELSE /\ classBookings' = Remove(classBookings, id)
         /\ Respond(200, "")
         /\ UNCHANGED <<authStore, nextClassBookingId, fileStore, bookings, nextBookingId, catalog,
                        nextCatalogId, classes, nextClassId, settings, now, inflight, call>>

\* PUT /api/settings, for a body that gives operatingHours and bookingRules
PutSettings(body) ==
    IF ~ (parseTimeToMinutes(body.operatingHours.startTime)
            < parseTimeToMinutes(body.operatingHours.endTime))
    THEN /\ Respond(400, "Opening time must be before closing time")
         /\ UNCHANGED <<authStore, store, fileStore, inflight, call>>
    ELSE /\ settings' = [settings EXCEPT !.operatingHours = body.operatingHours,
                                         !.autoConfirm = body.autoConfirm]
         /\ Respond(200, "")
         /\ UNCHANGED <<authStore, classStore, fileStore, bookings, nextBookingId, catalog, nextCatalogId, classes,
                        nextClassId, now, inflight, call>>

\* PUT /api/settings, for a body that gives pricing with all of its keys
PutSettingsPricing(pricing) ==
    /\ settings' = [settings EXCEPT !.pricing = pricing]
    /\ Respond(200, "")
    /\ UNCHANGED <<authStore, classStore, fileStore, bookings, nextBookingId, catalog, nextCatalogId, classes,
                   nextClassId, now, inflight, call>>

----------------------------------------------------------------------------
(* GET /api/availability and GET /api/rentals/availability *)

\* server.js generateSlotsForRange with the default interval of 30 minutes
generateSlotsForRange(startTime, endTime) ==
    { minutesToTimeString(parseTimeToMinutes(startTime) + (30 * k)) :
        k \in {j \in 0..48 : parseTimeToMinutes(startTime) + (30 * j)
                                < parseTimeToMinutes(endTime)} }

\* getBookingItemsByDate: the items of that date in pending and confirmed bookings,
\* each with the status of its booking
getBookingItemsByDate(bk, date) ==
    { [item |-> bk[b].items[i], status |-> bk[b].status] :
        <<b, i>> \in { <<b2, i2>> \in UNION {{b3} \X (1..Len(bk[b3].items)) : b3 \in DOMAIN bk} :
                          /\ bk[b2].items[i2].date = date
                          /\ bk[b2].status \in ActiveStatuses } }

\* end_time >= $1::timestamptz for the wall clock [date, time] of the request
EndsAtOrAfter(cl, clock) ==
    \/ cl.date > clock.date
    \/ cl.date = clock.date
       /\ parseTimeToMinutes(cl.endTime) >= parseTimeToMinutes(clock.time)

\* getClasses({ includePast: true, onDate })
getClassesOnDateIncludingPast(cls, onDate, clock) ==
    {c \in DOMAIN cls : cls[c].date = onDate}

\* getClasses({ onDate }): includePast is false, so the classes that have ended are
\* left out
getClassesOnDate(cls, onDate, clock) ==
    {c \in DOMAIN cls : EndsAtOrAfter(cls[c], clock) /\ cls[c].date = onDate}

\* the slots of the items of getBookingItemsByDate with one of the statuses
RentalSlots(bk, date, statuses) ==
    UNION { generateSlotsForRange(r.item.startTime, r.item.endTime) :
              r \in {x \in getBookingItemsByDate(bk, date) :
                        x.item.itemType = "room_rental" /\ x.status \in statuses} }

\* server.js getRentalAvailability; the two arrays as the sets of their labels
getRentalAvailability(bk, cls, st, date, clock) ==
    [date |-> date,
     confirmedSlots |->
        RentalSlots(bk, date, {"confirmed"})
        \cup UNION { generateSlotsForRange(cls[c].startTime, cls[c].endTime) :
                       c \in getClassesOnDate(cls, date, clock) },
     pendingSlots |-> RentalSlots(bk, date, AnyStatus \ {"confirmed"}),
     openingHours |-> st.operatingHours]

\* GET /api/availability?date= at wall-clock time clock
GetAvailability(date, clock) ==
    /\ call' = [fn |-> "getRentalAvailability", date |-> date, clock |-> clock,
                result |-> getRentalAvailability(bookings, classes, settings, date, clock)]
    /\ Respond(200, "")
    /\ UNCHANGED <<authStore, store, fileStore, inflight>>

----------------------------------------------------------------------------
(* The pricing functions of server.js, called on their own *)

\* determinePeriodType(date, startTime, endTime, settings) returns
DeterminePeriodTypeCall ==
    /\ call.fn = "determinePeriodType"
    /\ ~ call.done
    /\ call' = [call EXCEPT
            !.done = TRUE,
            !.result = determinePeriodType(call.date, call.startTime, call.endTime,
                                           call.settings)]
    /\ UNCHANGED <<authStore, store, fileStore, resp, inflight>>

\* calculateRoomRentalPrice({ duration, peopleCount, periodType }, settings) returns
CalculateRoomRentalPriceCall ==
    /\ call.fn = "calculateRoomRentalPrice"
    /\ ~ call.done
    /\ call' = [call EXCEPT
            !.done = TRUE,
            !.result = calculateRoomRentalPrice(call.duration, call.peopleCount,
                                                call.periodType, call.settings)]
    /\ UNCHANGED <<authStore, store, fileStore, resp, inflight>>

----------------------------------------------------------------------------
(* db/index.js createBooking, statement by statement.  bookings is what the      *)
(* database shows to every other connection; the rows the transaction has       *)
(* inserted and not yet committed are held in call.  A statement may fail (a    *)
(* NUMERIC(10, 2) overflow, a NOT NULL violation, a lost connection).           *)

\* client.query('BEGIN') and the values computed before the first INSERT
CreateBookingBegin(data) ==
    /\ \/ call.fn = "none"
       \/ call.fn = "createBooking" /\ call.phase \in {"returned", "thrown"}
    /\ nextBookingId < MaxBookings
    /\ now < MaxNow
    /\ call' = [fn |-> "createBooking", phase |-> "insertBooking", data |-> data,
                bookingRow |-> FALSE, itemRows |-> <<>>]
    /\ UNCHANGED <<authStore, store, fileStore, resp, inflight>>

\* INSERT INTO bookings ... RETURNING *
InsertBookingRow(ok) ==
    /\ call.fn = "createBooking"
    /\ call.phase = "insertBooking"
    /\ call' = IF ok THEN [call EXCEPT !.bookingRow = TRUE, !.phase = "insertItems"]
               ELSE [call EXCEPT !.phase = "rollback"]
    /\ UNCHANGED <<authStore, store, fileStore, resp, inflight>>

\* one turn of for (const item of bookingData.items): INSERT INTO booking_items
InsertItemRow(ok) ==
    /\ call.fn = "createBooking"
    /\ call.phase = "insertItems"
    /\ Len(call.itemRows) < Len(call.data.items)
    /\ call' = IF ok
               THEN [call EXCEPT !.itemRows =
                        Append(@, call.data.items[Len(call.itemRows) + 1])]
               ELSE [call EXCEPT !.phase = "rollback"]
    /\ UNCHANGED <<authStore, store, fileStore, resp, inflight>>

\* the tables after COMMIT: the rows of the transaction become visible
Committed(bk, id, tx, clock) ==
    Insert(bk, id, createBooking(tx.data.status, tx.itemRows, clock))

\* client.query('COMMIT') and the return of the booking
CommitTransaction(ok) ==
    /\ call.fn = "createBooking"
    /\ call.phase = "insertItems"
    /\ Len(call.itemRows) = Len(call.data.items)
    /\ IF ok
       THEN /\ now' = now + 1
            /\ nextBookingId' = nextBookingId + 1
            /\ bookings' = Committed(bookings, nextBookingId', call, now')
            /\ call' = [call EXCEPT !.phase = "returned"]
            /\ UNCHANGED <<authStore, classStore, fileStore, catalog, nextCatalogId, classes, nextClassId, settings,
                           resp, inflight>>
       ELSE /\ call' = [call EXCEPT !.phase = "rollback"]
            /\ UNCHANGED <<authStore, store, fileStore, resp, inflight>>

\* a rollback that leaves the rows inserted so far in the tables
RolledBackKeepingRows(bk, id, tx, clock) ==
    IF tx.bookingRow
    THEN Insert(bk, id, createBooking(tx.data.status, tx.itemRows, clock))
    ELSE bk

\* the tables after ROLLBACK: the rows of the transaction are discarded
RolledBack(bk, id, tx, clock) == bk

\* catch (error): client.query('ROLLBACK'), throw error
RollbackTransaction ==
    /\ call.fn = "createBooking"
    /\ call.phase = "rollback"
    /\ bookings' = RolledBack(bookings, nextBookingId + 1, call, now)
    /\ call' = [call EXCEPT !.phase = "thrown"]
    /\ UNCHANGED <<authStore, classStore, fileStore, nextBookingId, catalog, nextCatalogId, classes, nextClassId,
                   settings, now, resp, inflight>>

----------------------------------------------------------------------------
(* POST /api/bookings handled concurrently: each await is a step *)

Handlers == {1, 2}

ReadPhases == {"loadSettings", "getCatalogItemById", "getCatalogItemCapacityUsage",
               "roomQuery", "classQuery"}

\* a request arrives and runs up to its first await
Receive(p, req) ==
    /\ inflight[p].phase = "idle"
    /\ inflight' = [inflight EXCEPT ![p] = NewHandler(req)]
    /\ UNCHANGED <<authStore, store, fileStore, resp, call>>

\* the awaited query of handler p returns
Await(p) ==
    /\ inflight[p].phase \in ReadPhases
    /\ inflight' = [inflight EXCEPT
            ![p] = CreateStep(@, bookings, catalog, classes, settings)]
    /\ UNCHANGED <<authStore, store, fileStore, resp, call>>

\* await createBooking(bookingPayload): BEGIN ... COMMIT, then the 201 response
Commit(p) ==
    LET h == inflight[p]
        id == nextBookingId + 1
        status == IF h.settings.autoConfirm THEN "confirmed" ELSE "pending"
    IN  /\ h.phase = "createBooking"
        /\ nextBookingId < MaxBookings
        /\ now < MaxNow
        /\ now' = now + 1
        /\ nextBookingId' = id
        /\ bookings' = Insert(bookings, id, createBooking(status, h.normalizedItems, now'))
        /\ inflight' = [inflight EXCEPT
                ![p] = [h EXCEPT !.phase = "done", !.code = 201, !.bookingId = id]]
        /\ UNCHANGED <<authStore, classStore, fileStore, catalog, nextCatalogId, classes, nextClassId, settings, resp, call>>

----------------------------------------------------------------------------
(* The file-based server: server.js lines 1-780, bookings.json and settings.json. *)
(* A booking of the file carries the fields the handlers decide on: date,        *)
(* startTime, duration, totalPrice, selectedSlots and status.                    *)

DEFAULT_SLOT_INTERVAL == 30

\* defaultSettings of the file-based server, prices in cents
fileDefaultSettings ==
    [operatingHours |-> [startTime |-> <<7, 0>>, endTime |-> <<22, 0>>],
     pricing |-> [thirtyMinutes |-> 14000, sundayAirconFee |-> 8000],
     bookingRules |-> [slotInterval |-> 30, autoConfirm |-> FALSE]]

\* timeStringToMinutes
timeStringToMinutes(timeString) == (timeString[1] * 60) + timeString[2]

\* Number(settings.bookingRules?.slotInterval) || DEFAULT_SLOT_INTERVAL
SlotIntervalOf(st) ==
    IF st.bookingRules.slotInterval # 0 THEN st.bookingRules.slotInterval
    ELSE DEFAULT_SLOT_INTERVAL

\* generateSlotsForDuration: the labels startTime, startTime + slotInterval, ... that
\* begin before startTime + durationMinutes
generateSlotsForDuration(startTime, durationMinutes, slotInterval) ==
    LET start == timeStringToMinutes(startTime)
    IN  { minutesToTimeString(start + (k * slotInterval)) :
            k \in {j \in 0..durationMinutes : start + (j * slotInterval)
                                                < start + durationMinutes} }

\* whether the while loop of generateSlotsForDuration ends: currentMinutes must reach
\* endMinutes by steps of slotInterval
generateSlotsTerminates(durationMinutes, slotInterval) ==
    durationMinutes <= 0 \/ slotInterval > 0

\* areSlotsAvailable that lets pending bookings hold their slots too
areSlotsAvailableCountingPending(file, date, startTime, duration, excludeBookingId, slotInterval) ==
    LET requestedSlots == generateSlotsForDuration(startTime, duration, slotInterval)
    IN  \A id \in DOMAIN file :
            ( /\ file[id].date = date
              /\ file[id].status \in {"pending", "confirmed"}
              /\ id # excludeBookingId )
            => requestedSlots \cap generateSlotsForDuration(file[id].startTime,
                                    file[id].duration, slotInterval) = {}

\* areSlotsAvailable with a check that never finds a conflict
areSlotsAvailableAlways(file, date, startTime, duration, excludeBookingId, slotInterval) ==
    \A id \in DOMAIN file : file[id].date = file[id].date

\* areSlotsAvailable over the bookings it loads; excludeBookingId 0 for null
areSlotsAvailable(file, date, startTime, duration, excludeBookingId, slotInterval) ==
    LET requestedSlots == generateSlotsForDuration(startTime, duration, slotInterval)
    IN  \A id \in DOMAIN file :
            ( /\ file[id].date = date
              /\ file[id].status = "confirmed"
              /\ id # excludeBookingId )
            => requestedSlots \cap generateSlotsForDuration(file[id].startTime,
                                    file[id].duration, slotInterval) = {}

\* the hours of the Sunday fee rounded down instead of up
FloorHours(durationMinutes) == durationMinutes \div 60

\* Math.ceil(durationMinutes / 60)
CeilHours(durationMinutes) == (durationMinutes + 59) \div 60

\* calculateTotalPrice, in cents.  pricePerInterval * intervals is
\* (thirtyMinutes * (slotInterval / 30)) * (durationMinutes / slotInterval), the Sunday
\* fee is added to it, and Math.round(totalPrice * 100) / 100 rounds the sum to the
\* cent, a half cent upwards.  The prices and fees of the model are whole currency
\* units, for which the binary64 product is never on the other side of a half cent
\* than the exact one.
calculateTotalPrice(st, durationMinutes, date) ==
    LET slotInterval == SlotIntervalOf(st)
        pricePerHalfHour == st.pricing.thirtyMinutes
        isSunday == date # NoDate /\ getDay(date) = 0
        sundayFee == st.pricing.sundayAirconFee
        fee == IF isSunday /\ sundayFee > 0 THEN sundayFee * CeilHours(durationMinutes)
               ELSE 0
    IN  (((2 * pricePerHalfHour * slotInterval * durationMinutes) + (30 * slotInterval))
            \div (60 * slotInterval)) + fee

\* the slots of the payload in ascending order of their minutes
RECURSIVE SortedMinutes(_)
SortedMinutes(ms) ==
    IF ms = {} THEN <<>>
    ELSE LET m == CHOOSE x \in ms : \A y \in ms : x <= y
         IN  <<m>> \o SortedMinutes(ms \ {m})

\* the validation without its test for gaps between the slots
FileValidationErrorsGapsAllowed(payload, st) ==
    LET slotInterval == SlotIntervalOf(st)
        operatingStart == timeStringToMinutes(st.operatingHours.startTime)
        operatingEnd == timeStringToMinutes(st.operatingHours.endTime)
        uniqueSlots == {payload.selectedSlots[i] : i \in 1..Len(payload.selectedSlots)}
        slotMinutes == SortedMinutes({timeStringToMinutes(x) : x \in uniqueSlots})
    IN  \/ Cardinality(uniqueSlots) # Len(payload.selectedSlots)
        \/ \E i \in 1..Len(slotMinutes) :
                slotMinutes[i] < operatingStart \/ slotMinutes[i] >= operatingEnd
        \/ Len(slotMinutes) = 0
        \/ /\ Len(slotMinutes) > 0
           /\ \/ slotMinutes[1] + (Len(slotMinutes) * slotInterval) > operatingEnd
              \/ payload.startTime # minutesToTimeString(slotMinutes[1])

\* POST /api/bookings, lines 470-518: TRUE when validationErrors is not empty
FileValidationErrors(payload, st) ==
    LET slotInterval == SlotIntervalOf(st)
        operatingStart == timeStringToMinutes(st.operatingHours.startTime)
        operatingEnd == timeStringToMinutes(st.operatingHours.endTime)
        uniqueSlots == {payload.selectedSlots[i] : i \in 1..Len(payload.selectedSlots)}
        slotMinutes == SortedMinutes({timeStringToMinutes(x) : x \in uniqueSlots})
    IN  \/ Cardinality(uniqueSlots) # Len(payload.selectedSlots)
        \/ \E i \in 1..Len(slotMinutes) :
                slotMinutes[i] < operatingStart \/ slotMinutes[i] >= operatingEnd
        \/ \E i \in 2..Len(slotMinutes) : slotMinutes[i] # slotMinutes[i - 1] + slotInterval
        \/ Len(slotMinutes) = 0
        \/ /\ Len(slotMinutes) > 0
           /\ \/ slotMinutes[1] + (Len(slotMinutes) * slotInterval) > operatingEnd
              \/ payload.startTime # minutesToTimeString(slotMinutes[1])

\* the booking POST /api/bookings builds from a payload that passed validation
FileNewBooking(payload, st) ==
    LET uniqueSlots == {payload.selectedSlots[i] : i \in 1..Len(payload.selectedSlots)}
        duration == Cardinality(uniqueSlots) * SlotIntervalOf(st)
    IN  [date |-> payload.date,
         startTime |-> payload.startTime,
         duration |-> duration,
         totalPrice |-> calculateTotalPrice(st, duration, payload.date),
         selectedSlots |-> uniqueSlots,
         status |-> IF st.bookingRules.autoConfirm THEN "confirmed" ELSE "pending"]

\* POST /api/bookings of the file-based server
FilePostBooking(payload, st) ==
    LET new == FileNewBooking(payload, st)
    IN  IF SlotIntervalOf(st) <= 0
        THEN /\ Respond(500, "Configuration error")
             /\ UNCHANGED <<authStore, store, fileStore, inflight, call>>
        ELSE IF FileValidationErrors(payload, st)
        THEN /\ Respond(400, "Validation failed")
             /\ UNCHANGED <<authStore, store, fileStore, inflight, call>>
        ELSE IF new.totalPrice <= 0
        THEN /\ Respond(400, "Calculated price must be greater than 0")
             /\ UNCHANGED <<authStore, store, fileStore, inflight, call>>
        ELSE IF ~ areSlotsAvailable(fileBookings, new.date, new.startTime, new.duration,
                                    0, SlotIntervalOf(st))
        THEN /\ Respond(400, "time conflict")
             /\ UNCHANGED <<authStore, store, fileStore, inflight, call>>
        ELSE /\ nextFileId < MaxBookings
             /\ nextFileId' = nextFileId + 1
             /\ fileBookings' = Insert(fileBookings, nextFileId', new)
             /\ Respond(201, "")
             /\ UNCHANGED <<authStore, store, fileSettings, inflight, call>>

\* PATCH /api/bookings/:id/status on entry, after the check of the status
NewFilePatch(id, status) ==
    [phase |-> "loadBookings", id |-> id, status |-> status, bookings |-> <<>>,
     code |-> 0, err |-> ""]

\* lines 624-635: the handler's copy of the bookings with the new status on its booking
WithStatus(h) ==
    [h EXCEPT !.bookings[h.id].status = h.status, !.phase = "saveBookings"]

\* One awaited file read of the PATCH handler, against the file as it is now, and the
\* synchronous code up to the next await.
FilePatchStep(h, file, st) ==
    CASE h.phase = "loadBookings" ->
            IF h.id \notin DOMAIN file
            THEN [h EXCEPT !.phase = "done", !.code = 404, !.err = "Booking not found"]
            ELSE IF h.status = "confirmed" /\ file[h.id].status # "confirmed"
            THEN [h EXCEPT !.bookings = file, !.phase = "loadSettings"]
            ELSE WithStatus([h EXCEPT !.bookings = file])
      [] h.phase = "loadSettings" ->
            [h EXCEPT !.phase = "areSlotsAvailable"]
      [] h.phase = "areSlotsAvailable" ->
            IF ~ generateSlotsTerminates(h.bookings[h.id].duration, SlotIntervalOf(st))
            THEN [h EXCEPT !.phase = "generateSlotsForDuration"]
            ELSE IF ~ areSlotsAvailable(file, h.bookings[h.id].date, h.bookings[h.id].startTime,
                                   h.bookings[h.id].duration, h.id, SlotIntervalOf(st))
            THEN [h EXCEPT !.phase = "done", !.code = 400,
                           !.err = "Cannot confirm booking"]
            ELSE WithStatus(h)
      [] OTHER -> h

RECURSIVE RunFilePatch(_, _, _)
\* the handler run to its saveBookings call or to its error response with no other
\* request in between
RunFilePatch(h, file, st) ==
    IF h.phase \in {"saveBookings", "done", "idle", "generateSlotsForDuration"} THEN h
    ELSE RunFilePatch(FilePatchStep(h, file, st), file, st)

\* the handler is inside a loop that does not end: no response is sent and, the loop
\* being synchronous, no other request is served
NoResponse == [code |-> 0, err |-> "no response"]

\* PUT /api/settings of the file-based server, for a body that gives bookingRules:
\* the body's keys replace those of the stored settings, nothing is validated
FilePutSettings(body) ==
    /\ fileSettings' = [fileSettings EXCEPT !.bookingRules = body.bookingRules]
    /\ Respond(200, "")
    /\ UNCHANGED <<authStore, store, fileBookings, nextFileId, inflight, call>>

\* PATCH /api/bookings/:id/status of the file-based server, run to completion
FilePatchBookingStatus(id, status, st) ==
    IF status \notin validStatuses
    THEN /\ Respond(400, "Invalid status")
         /\ UNCHANGED <<authStore, store, fileStore, inflight, call>>
    ELSE LET h == RunFilePatch(NewFilePatch(id, status), fileBookings, st)
         IN  IF h.phase = "generateSlotsForDuration"
             THEN /\ resp' = NoResponse
                  /\ UNCHANGED <<authStore, store, fileStore, inflight, call>>
             ELSE IF h.phase = "done"
             THEN /\ Respond(h.code, h.err)
                  /\ UNCHANGED <<authStore, store, fileStore, inflight, call>>
             ELSE /\ fileBookings' = h.bookings
                  /\ Respond(200, "")
                  /\ UNCHANGED <<authStore, store, nextFileId, fileSettings, inflight, call>>

\* DELETE /api/bookings/:id of the file-based server
FileDeleteBooking(id) ==
    IF id \notin DOMAIN fileBookings
    THEN /\ Respond(404, "Booking not found")
         /\ UNCHANGED <<authStore, store, fileStore, inflight, call>>
    ELSE /\ fileBookings' = Remove(fileBookings, id)
         /\ Respond(200, "")
         /\ UNCHANGED <<authStore, store, nextFileId, fileSettings, inflight, call>>

\* a PATCH request arrives and runs up to its first await
FilePatchReceive(p, id, status) ==
    /\ inflight[p].phase = "idle"
    /\ status \in validStatuses
    /\ inflight' = [inflight EXCEPT ![p] = NewFilePatch(id, status)]
    /\ UNCHANGED <<authStore, store, fileStore, resp, call>>

\* the awaited file read of handler p returns
FilePatchAwait(p) ==
    /\ inflight[p].phase \in {"loadBookings", "loadSettings", "areSlotsAvailable"}
    /\ inflight' = [inflight EXCEPT
            ![p] = FilePatchStep(@, fileBookings, fileDefaultSettings)]
    /\ UNCHANGED <<authStore, store, fileStore, resp, call>>

\* await saveBookings(bookings): the handler's copy replaces the file
FilePatchSave(p) ==
    /\ inflight[p].phase = "saveBookings"
    /\ fileBookings' = inflight[p].bookings
    /\ inflight' = [inflight EXCEPT ![p] = [@ EXCEPT !.phase = "done", !.code = 200]]
    /\ UNCHANGED <<authStore, store, nextFileId, fileSettings, resp, call>>

\* POST /api/bookings of the file-based server on entry, after the schema check
NewFilePost(payload) ==
    [phase |-> "postLoadSettings", payload |-> payload, bookings |-> <<>>,
     new |-> FileNewBooking(payload, fileDefaultSettings), id |-> 0, status |-> "",
     code |-> 0, err |-> ""]

\* One awaited file read of the POST handler, against the file as it is now, and the
\* synchronous code up to the next await: loadSettings (line 454), areSlotsAvailable
\* (535), loadBookings (568).
FilePostStep(h, file, st) ==
    CASE h.phase = "postLoadSettings" ->
            IF SlotIntervalOf(st) <= 0
            THEN [h EXCEPT !.phase = "done", !.code = 500, !.err = "Configuration error"]
            ELSE IF FileValidationErrors(h.payload, st)
            THEN [h EXCEPT !.phase = "done", !.code = 400, !.err = "Validation failed"]
            ELSE IF FileNewBooking(h.payload, st).totalPrice <= 0
            THEN [h EXCEPT !.phase = "done", !.code = 400, !.err = "Validation failed"]
            ELSE [h EXCEPT !.phase = "postAreSlotsAvailable",
                           !.new = FileNewBooking(h.payload, st)]
      [] h.phase = "postAreSlotsAvailable" ->
            IF ~ areSlotsAvailable(file, h.new.date, h.new.startTime, h.new.duration,
                                   0, SlotIntervalOf(st))
            THEN [h EXCEPT !.phase = "done", !.code = 400, !.err = "time conflict"]
            ELSE [h EXCEPT !.phase = "postLoadBookings"]
      [] h.phase = "postLoadBookings" ->
            [h EXCEPT !.bookings = file, !.phase = "postSaveBookings"]
      [] OTHER -> h

\* a POST request arrives and runs up to its first await
FilePostReceive(p, payload) ==
    /\ inflight[p].phase = "idle"
    /\ inflight' = [inflight EXCEPT ![p] = NewFilePost(payload)]
    /\ UNCHANGED <<authStore, store, fileStore, resp, call>>

\* the awaited file read of POST handler p returns
FilePostAwait(p) ==
    /\ inflight[p].phase \in {"postLoadSettings", "postAreSlotsAvailable", "postLoadBookings"}
    /\ inflight' = [inflight EXCEPT ![p] = FilePostStep(@, fileBookings, fileSettings)]
    /\ UNCHANGED <<authStore, store, fileStore, resp, call>>

\* bookings.push(newBooking); await saveBookings(bookings): the handler's copy with
\* the new booking replaces the file, and 201 is sent
FilePostSave(p) ==
    /\ inflight[p].phase = "postSaveBookings"
    /\ nextFileId < MaxBookings
    /\ nextFileId' = nextFileId + 1
    /\ fileBookings' = Insert(inflight[p].bookings, nextFileId', inflight[p].new)
    /\ inflight' = [inflight EXCEPT ![p] = [@ EXCEPT !.phase = "done", !.code = 201,
                                                      !.id = nextFileId']]
    /\ UNCHANGED <<authStore, store, fileSettings, resp, call>>

\* calculateTotalPrice(settings, durationMinutes, date) returns
CalculateTotalPriceCall ==
    /\ call.fn = "calculateTotalPrice"
    /\ ~ call.done
    /\ call' = [call EXCEPT
            !.done = TRUE,
            !.result = calculateTotalPrice(call.settings, call.durationMinutes, call.date)]
    /\ UNCHANGED <<authStore, store, fileStore, resp, inflight>>

----------------------------------------------------------------------------
(* The legacy file-based server: unnamed/part_003 lines 413-607.  bookings.json   *)
(* holds {bookings: [...]}; a booking carries date, slots, duration and status.  *)

\* the slots of the confirmed bookings of the date
LegacyBookedSlots(file, date) ==
    UNION { file[id].slots :
              id \in {i \in DOMAIN file : file[i].date = date /\ file[i].status = "confirmed"} }

\* POST /api/bookings of the legacy server; a duration of 0 stands for a missing field
LegacyPostBooking(payload) ==
    LET slots == {payload.slots[i] : i \in 1..Len(payload.slots)}
    IN  IF payload.date = NoDate \/ payload.duration = 0
        THEN /\ Respond(400, "All fields are required")
             /\ UNCHANGED <<authStore, store, fileStore, inflight, call>>
        ELSE IF slots \cap LegacyBookedSlots(fileBookings, payload.date) # {}
        THEN /\ Respond(409, "time conflict")
             /\ UNCHANGED <<authStore, store, fileStore, inflight, call>>
        ELSE /\ nextFileId < MaxBookings
             /\ nextFileId' = nextFileId + 1
             /\ fileBookings' = Insert(fileBookings, nextFileId',
                    [date |-> payload.date, slots |-> slots,
                     duration |-> payload.duration, status |-> "pending"])
             /\ Respond(201, "")
             /\ UNCHANGED <<authStore, store, fileSettings, inflight, call>>

\* PATCH /api/bookings/:id of the legacy server
LegacyPatchBooking(id, status) ==
    IF status \notin validStatuses
    THEN /\ Respond(400, "Invalid status")
         /\ UNCHANGED <<authStore, store, fileStore, inflight, call>>
    ELSE IF id \notin DOMAIN fileBookings
    THEN /\ Respond(404, "Booking not found")
         /\ UNCHANGED <<authStore, store, fileStore, inflight, call>>
    ELSE /\ fileBookings' = [fileBookings EXCEPT ![id].status = status]
         /\ Respond(200, "")
         /\ UNCHANGED <<authStore, store, nextFileId, fileSettings, inflight, call>>

\* DELETE /api/bookings/:id of the legacy server: filters the array and writes it
LegacyDeleteBooking(id) ==
    /\ fileBookings' = IF id \in DOMAIN fileBookings THEN Remove(fileBookings, id)
                       ELSE fileBookings
    /\ Respond(200, "")
    /\ UNCHANGED <<authStore, store, nextFileId, fileSettings, inflight, call>>

----------------------------------------------------------------------------
(* Requests the model sends *)

AdHoc(date, startTime, endTime, peopleCount) ==
    [catalogItemId |-> 0, type |-> "", date |-> date, startTime |-> startTime,
     endTime |-> endTime, peopleCount |-> peopleCount, price |-> -1]

CatalogRef(id, peopleCount) ==
    [catalogItemId |-> id, type |-> "", date |-> NoDate, startTime |-> NoTime,
     endTime |-> NoTime, peopleCount |-> peopleCount, price |-> -1]

Request(items) == [items |-> items, sharedPeopleCount |-> 0]

\* room rentals on Friday 2026-11-06 and Saturday 2026-11-07
RoomRequests ==
    { Request(<<AdHoc(6, <<10, 0>>, <<11, 0>>, 1)>>),
      Request(<<AdHoc(6, <<11, 0>>, <<12, 0>>, 1)>>),
      Request(<<AdHoc(6, <<10, 30>>, <<11, 30>>, 2)>>),
      Request(<<AdHoc(6, <<14, 0>>, <<15, 0>>, 1)>>),
      Request(<<AdHoc(7, <<10, 0>>, <<11, 0>>, 1)>>),
      Request(<<AdHoc(6, <<11, 0>>, <<10, 0>>, 1)>>),
      Request(<<AdHoc(6, <<6, 0>>, <<7, 0>>, 1)>>),
      Request(<<AdHoc(6, <<10, 0>>, <<11, 0>>, 19)>>),
      Request(<<AdHoc(6, <<10, 0>>, <<11, 0>>, 1), AdHoc(6, <<11, 0>>, <<12, 0>>, 1)>>),
      Request(<<AdHoc(6, <<10, 0>>, <<11, 0>>, 1), AdHoc(6, <<10, 30>>, <<11, 30>>, 1)>>) }

CatalogRequests ==
    { Request(<<CatalogRef(1, 1)>>),
      Request(<<CatalogRef(1, 2)>>),
      Request(<<AdHoc(6, <<10, 30>>, <<11, 30>>, 1)>>) }

StatusInputs == validStatuses \cup {"paid"}

AdminNotesInputs == {Undefined, "note"}

CatalogPayloads ==
    { [type |-> "workshop_class", date |-> 6, startTime |-> <<10, 0>>,
       endTime |-> <<11, 0>>, duration |-> 0, price |-> 100, capacity |-> c] : c \in 0..2 }
    \cup { [type |-> "room_rental", date |-> 6, startTime |-> <<10, 0>>,
             endTime |-> <<11, 0>>, duration |-> 0, price |-> 100, capacity |-> 2] }

ClassPayloads ==
    { [date |-> 6, startTime |-> <<11, 0>>, endTime |-> <<12, 0>>, capacity |-> 5],
      [date |-> 6, startTime |-> <<12, 0>>, endTime |-> <<11, 0>>, capacity |-> 5] }

SettingsBodies ==
    { [autoConfirm |-> a, operatingHours |-> DEFAULT_OPERATING_HOURS] : a \in BOOLEAN }
    \cup { [autoConfirm |-> FALSE,
            operatingHours |-> [startTime |-> <<22, 0>>, endTime |-> <<7, 0>>]] }

\* catalog items of 2026-11-06: a workshop of 10:00-11:00 with 1 to 3 seats; a room
\* slot of 10:00-11:00; a workshop of 10:00-11:00 declared to last 90 minutes; one
\* that ends before it starts and is declared to last 30 minutes; a late workshop
ItemPayloads ==
    { [type |-> "workshop_class", date |-> 6, startTime |-> <<10, 0>>,
       endTime |-> <<11, 0>>, duration |-> 0, price |-> 100, capacity |-> c] : c \in 1..3 }
    \cup
    { [type |-> "room_rental", date |-> 6, startTime |-> <<10, 0>>,
       endTime |-> <<11, 0>>, duration |-> 0, price |-> 100, capacity |-> 3],
      [type |-> "workshop_class", date |-> 6, startTime |-> <<10, 0>>,
       endTime |-> <<11, 0>>, duration |-> 90, price |-> 100, capacity |-> 3],
      [type |-> "workshop_class", date |-> 6, startTime |-> <<11, 0>>,
       endTime |-> <<10, 0>>, duration |-> 30, price |-> 100, capacity |-> 3],
      [type |-> "workshop_class", date |-> 6, startTime |-> <<23, 0>>,
       endTime |-> <<23, 30>>, duration |-> 0, price |-> 100, capacity |-> 3] }

\* requests with a shared peopleCount, with several items of one catalog item, and
\* with room ranges that overlap or touch within the request
ItemRequests ==
    { [items |-> <<AdHoc(6, <<10, 0>>, <<11, 0>>, 0)>>, sharedPeopleCount |-> 19],
      [items |-> <<AdHoc(6, <<12, 0>>, <<13, 0>>, 2)>>, sharedPeopleCount |-> 19],
      Request(<<AdHoc(6, <<10, 0>>, <<11, 0>>, 19)>>),
      Request(<<CatalogRef(1, 2)>>),
      Request(<<CatalogRef(1, 1), CatalogRef(1, 1)>>),
      Request(<<CatalogRef(1, 1), CatalogRef(1, 2)>>),
      Request(<<AdHoc(6, <<10, 0>>, <<11, 0>>, 1), AdHoc(6, <<10, 30>>, <<11, 30>>, 1)>>),
      Request(<<AdHoc(6, <<10, 0>>, <<11, 0>>, 1), AdHoc(6, <<11, 0>>, <<12, 0>>, 1)>>),
      Request(<<AdHoc(6, <<12, 0>>, <<13, 0>>, 1), AdHoc(6, <<12, 30>>, <<13, 30>>, 1)>>),
      Request(<<CatalogRef(1, 1), AdHoc(6, <<10, 30>>, <<11, 30>>, 1)>>) }

\* room rentals around the class of 11:00-12:00 on 2026-11-06: touching it before and
\* after, overlapping it, inside it, and on the next day
ClassRoomRequests ==
    { Request(<<AdHoc(6, <<10, 0>>, <<11, 0>>, 1)>>),
      Request(<<AdHoc(6, <<10, 30>>, <<11, 30>>, 1)>>),
      Request(<<AdHoc(6, <<11, 15>>, <<11, 45>>, 1)>>),
      Request(<<AdHoc(6, <<12, 0>>, <<13, 0>>, 1)>>),
      Request(<<AdHoc(7, <<11, 0>>, <<12, 0>>, 1)>>) }

\* room rentals of Friday 2026-11-06 in the morning, in the evening, and both in one
\* request for 11 people
PricedRequests ==
    { Request(<<AdHoc(6, <<10, 0>>, <<11, 0>>, 1)>>),
      Request(<<AdHoc(6, <<18, 0>>, <<19, 30>>, 1)>>),
      Request(<<AdHoc(6, <<12, 0>>, <<13, 0>>, 11), AdHoc(6, <<19, 30>>, <<20, 0>>, 11)>>) }

\* the default pricing, higher rates, and a peak window of Friday mornings
PricingBodies ==
    { defaultSettings.pricing,
      [defaultSettings.pricing EXCEPT !.normalUpTo10 = 30000, !.peakUpTo18 = 40000],
      [defaultSettings.pricing EXCEPT
            !.peakSchedule = [days |-> {"fri"}, startTime |-> <<9, 0>>,
                              endTime |-> <<12, 0>>]] }

\* an item as POST /api/bookings hands it to createBooking
NormalizedItem(date, startTime, endTime, peopleCount) ==
    [catalogItemId |-> 0, itemType |-> "room_rental", date |-> date,
     startTime |-> startTime, endTime |-> endTime,
     duration |-> minutesBetween(startTime, endTime), peopleCount |-> peopleCount,
     price |-> calculateRoomRentalPrice(minutesBetween(startTime, endTime), peopleCount,
                    determinePeriodType(date, startTime, endTime, defaultSettings),
                    defaultSettings),
     periodType |-> determinePeriodType(date, startTime, endTime, defaultSettings)]

\* bookingData of one, two and three items, pending or confirmed
BookingData ==
    { [status |-> st, items |-> its] :
        st \in {"pending", "confirmed"},
        its \in { <<NormalizedItem(6, <<10, 0>>, <<11, 0>>, 1)>>,
                  <<NormalizedItem(6, <<12, 0>>, <<13, 0>>, 2),
                    NormalizedItem(6, <<18, 0>>, <<19, 0>>, 2)>>,
                  <<NormalizedItem(7, <<9, 0>>, <<10, 0>>, 11),
                    NormalizedItem(7, <<10, 0>>, <<11, 0>>, 11),
                    NormalizedItem(7, <<11, 0>>, <<12, 0>>, 11)>> } }

\* a class of 11:00-12:00 on 2026-11-06 with no, one or two seats, and one of
\* 13:00-14:00 with one seat
SmallClassPayloads ==
    { [date |-> 6, startTime |-> <<11, 0>>, endTime |-> <<12, 0>>, capacity |-> c] :
        c \in 0..2 }
    \cup { [date |-> 6, startTime |-> <<13, 0>>, endTime |-> <<14, 0>>, capacity |-> 1] }

\* class bookings for up to two people, one without a headcount it can use
ClassBookingPayloads ==
    { [classId |-> 1, peopleCount |-> n] : n \in 0..2 }

\* peak schedules: the default one, one that writes Friday with a capital, a
\* Monday lunch window, and none at all
PeakSchedules ==
    { DEFAULT_PEAK_SCHEDULE,
      [days |-> {"Fri"}, startTime |-> <<18, 0>>, endTime |-> <<23, 0>>],
      [days |-> {"mon"}, startTime |-> <<12, 0>>, endTime |-> <<14, 0>>],
      [days |-> {}, startTime |-> NoTime, endTime |-> NoTime] }

\* the arguments of determinePeriodType: every weekday (2026-11-01 .. 2026-11-07)
PeriodCalls ==
    { [fn |-> "determinePeriodType", date |-> d, startTime |-> s, endTime |-> e,
       settings |-> [defaultSettings EXCEPT !.pricing.peakSchedule = sc],
       done |-> FALSE, result |-> ""] :
        d \in 1..7,
        s \in {<<9, 0>>, <<12, 0>>, <<17, 0>>, <<17, 30>>, <<22, 30>>, <<23, 0>>},
        e \in {<<10, 0>>, <<12, 0>>, <<14, 0>>, <<18, 0>>, <<19, 0>>, <<23, 0>>, <<23, 30>>},
        sc \in PeakSchedules }

\* the arguments of calculateRoomRentalPrice: the default rates, and 250.50 an hour
\* for up to 10 people in normal hours
PriceCalls ==
    { [fn |-> "calculateRoomRentalPrice", duration |-> d, peopleCount |-> n,
       periodType |-> pt,
       settings |-> [defaultSettings EXCEPT !.pricing.normalUpTo10 = r],
       done |-> FALSE, result |-> 0] :
        d \in {9, 30, 45, 60, 90},
        n \in {1, 4, 10, 11, 18},
        pt \in {"normal", "peak"},
        r \in {25000, 25050} }

----------------------------------------------------------------------------
(* Specifications *)

\* after initializeDatabase on an empty database
Init ==
    /\ bookings = <<>>
    /\ nextBookingId = 0
    /\ catalog = <<>>
    /\ nextCatalogId = 0
    /\ classes = <<>>
    /\ nextClassId = 0
    /\ settings = defaultSettings
    /\ now = 0
    /\ resp = [code |-> 0, err |-> ""]
    /\ inflight = [p \in Handlers |-> Idle]
    /\ classBookings = <<>>
    /\ nextClassBookingId = 0
    /\ fileBookings = <<>>
    /\ nextFileId = 0
    /\ fileSettings = fileDefaultSettings
    /\ activeAdminTokens = <<>>
    /\ dateNow = 0
    /\ call = NoCall

PostRoomBookings == \E req \in RoomRequests : PostBooking(req)

PatchStatuses ==
    \E id \in 1..MaxBookings, status \in StatusInputs :
        PatchBookingStatus(id, status, Undefined)

DeleteBookings == \E id \in 1..MaxBookings : DeleteBooking(id)

PutSettingsAny == \E body \in SettingsBodies : PutSettings(body)

\* room rentals and settings: requests handled one after the other
Next ==
    \/ PostRoomBookings
    \/ PatchStatuses
    \/ DeleteBookings
    \/ PutSettingsAny

Spec == Init /\ [][Next]_vars

PostCatalogBookings == \E req \in CatalogRequests : PostBooking(req)

PatchNotedStatuses ==
    \E id \in 1..MaxBookings, status \in validStatuses, adminNotes \in AdminNotesInputs :
        PatchBookingStatus(id, status, adminNotes)

CreateCatalogItems == \E payload \in CatalogPayloads : CreateCatalogItem(payload)

UpdateCatalogItems ==
    \E id \in CatalogIds, payload \in CatalogPayloads : UpdateCatalogItem(id, payload)

DeleteCatalogItems == \E id \in CatalogIds : DeleteCatalogItem(id)

CreateClasses == \E payload \in ClassPayloads : CreateClass(payload)

DeleteClasses == \E id \in 1..MaxClasses : DeleteClass(id)

\* catalog items, classes and the bookings that meet them
NextCatalog ==
    \/ PostCatalogBookings
    \/ PatchNotedStatuses
    \/ DeleteBookings
    \/ CreateCatalogItems
    \/ UpdateCatalogItems
    \/ DeleteCatalogItems
    \/ CreateClasses
    \/ DeleteClasses

SpecCatalog == Init /\ [][NextCatalog]_vars

ConcurrentRequests ==
    { Request(<<AdHoc(6, <<10, 0>>, <<11, 0>>, 1)>>),
      Request(<<AdHoc(6, <<10, 30>>, <<11, 30>>, 2)>>),
      Request(<<AdHoc(6, <<11, 0>>, <<12, 0>>, 1)>>),
      Request(<<CatalogRef(1, 1)>>),
      Request(<<CatalogRef(1, 2)>>) }

Receives == \E p \in Handlers, req \in ConcurrentRequests : Receive(p, req)

Awaits == \E p \in Handlers : Await(p)

Commits == \E p \in Handlers : Commit(p)

\* two POST /api/bookings requests interleaving at their awaits
NextConcurrent ==
    \/ CreateCatalogItems
    \/ Receives
    \/ Awaits
    \/ Commits

SpecConcurrent == Init /\ [][NextConcurrent]_vars

PostItemBookings == \E req \in ItemRequests : PostBooking(req)

CreateItemCatalog == \E payload \in ItemPayloads : CreateCatalogItem(payload)

UpdateItemCatalog ==
    \E id \in CatalogIds, payload \in ItemPayloads : UpdateCatalogItem(id, payload)

NextItems ==
    \/ PostItemBookings
    \/ CreateItemCatalog
    \/ UpdateItemCatalog

SpecItems == Init /\ [][NextItems]_vars

PostClassRoomBookings == \E req \in ClassRoomRequests : PostBooking(req)

\* room rentals and the class schedule
NextClasses ==
    \/ PostClassRoomBookings
    \/ PatchStatuses
    \/ CreateClasses
    \/ DeleteClasses

SpecClasses == Init /\ [][NextClasses]_vars

\* the wall clock of a request for the availability: the day before the classes of
\* the model, and 2026-11-06 12:30, after the class of 11:00-12:00 has ended
ClockInputs == { [date |-> 5, time |-> <<9, 0>>], [date |-> 6, time |-> <<12, 30>>] }

GetAvailabilities == \E date \in {6, 7}, clock \in ClockInputs : GetAvailability(date, clock)

\* room rentals of 2026-11-06 10:00-11:00 and 10:15-11:30, and of 2026-11-07
AvailabilityRequests ==
    { Request(<<AdHoc(6, <<10, 0>>, <<11, 0>>, 1)>>),
      Request(<<AdHoc(6, <<10, 15>>, <<11, 30>>, 1)>>),
      Request(<<AdHoc(7, <<11, 0>>, <<12, 0>>, 1)>>) }

PostAvailabilityBookings == \E req \in AvailabilityRequests : PostBooking(req)

\* room rentals, the class schedule and the availability shown for a date
NextAvailability ==
    \/ PostAvailabilityBookings
    \/ PatchStatuses
    \/ CreateClasses
    \/ GetAvailabilities

SpecAvailability == Init /\ [][NextAvailability]_vars

UpdateClasses ==
    \E id \in 1..MaxClasses, payload \in ClassPayloads \cup SmallClassPayloads :
        UpdateClass(id, payload)

CreateAnyClasses ==
    \E payload \in ClassPayloads \cup SmallClassPayloads : CreateClass(payload)

\* admin class create and update requests, booking create and status requests
NextSchedule ==
    \/ PostClassRoomBookings
    \/ PatchStatuses
    \/ CreateAnyClasses
    \/ UpdateClasses

SpecSchedule == Init /\ [][NextSchedule]_vars

PostPricedBookings == \E req \in PricedRequests : PostBooking(req)

PutPricingSettings == \E pricing \in PricingBodies : PutSettingsPricing(pricing)

\* room rentals, their status changes and the pricing settings
NextPrices ==
    \/ PostPricedBookings
    \/ PatchStatuses
    \/ PutPricingSettings

SpecPrices == Init /\ [][NextPrices]_vars

CreateBookingBegins == \E data \in BookingData : CreateBookingBegin(data)

InsertBookingRows == \E ok \in BOOLEAN : InsertBookingRow(ok)

InsertItemRows == \E ok \in BOOLEAN : InsertItemRow(ok)

CommitTransactions == \E ok \in BOOLEAN : CommitTransaction(ok)

\* calls of createBooking, one statement at a time
NextTransaction ==
    \/ CreateBookingBegins
    \/ InsertBookingRows
    \/ InsertItemRows
    \/ CommitTransactions
    \/ RollbackTransaction

SpecTransaction == Init /\ [][NextTransaction]_vars

CreateSmallClasses == \E payload \in SmallClassPayloads : CreateClass(payload)

UpdateSmallClasses ==
    \E id \in 1..MaxClasses, payload \in SmallClassPayloads : UpdateClass(id, payload)

PostClassBookings == \E payload \in ClassBookingPayloads : PostClassBooking(payload)

PatchClassBookingStatuses ==
    \E id \in 1..MaxClassBookings, status \in StatusInputs :
        PatchClassBookingStatus(id, status)

DeleteClassBookings == \E id \in 1..MaxClassBookings : DeleteClassBooking(id)

\* classes and their bookings
NextClassBookings ==
    \/ CreateSmallClasses
    \/ UpdateSmallClasses
    \/ DeleteClasses
    \/ PostClassBookings
    \/ PatchClassBookingStatuses
    \/ DeleteClassBookings

SpecClassBookings == Init /\ [][NextClassBookings]_vars

\* payloads of POST /api/bookings of the file-based server
FilePayload(date, startTime, selectedSlots) ==
    [date |-> date, startTime |-> startTime, selectedSlots |-> selectedSlots]

\* Monday 2 November: 10:00-11:00, 10:30-11:00, 11:00-11:30 and, off the half-hour
\* grid, 10:15-11:15; Tuesday 3 November 10:00-10:30; and four payloads the
\* validation refuses (a gap, a slot at closing time, a repeated slot, a startTime
\* that is not the first slot)
FileRequests ==
    { FilePayload(2, <<10, 0>>, << <<10, 0>>, <<10, 30>> >>),
      FilePayload(2, <<10, 30>>, << <<10, 30>> >>),
      FilePayload(2, <<11, 0>>, << <<11, 0>> >>),
      FilePayload(2, <<10, 15>>, << <<10, 15>>, <<10, 45>> >>),
      FilePayload(3, <<10, 0>>, << <<10, 0>> >>),
      FilePayload(2, <<10, 0>>, << <<10, 0>>, <<11, 0>> >>),
      FilePayload(2, <<21, 30>>, << <<21, 30>>, <<22, 0>> >>),
      FilePayload(2, <<10, 0>>, << <<10, 0>>, <<10, 0>> >>),
      FilePayload(2, <<10, 30>>, << <<10, 0>>, <<10, 30>> >>) }

FilePostBookings == \E payload \in FileRequests : FilePostBooking(payload, fileDefaultSettings)

FilePatchBookingStatuses ==
    \E id \in 1..MaxBookings, status \in StatusInputs :
        FilePatchBookingStatus(id, status, fileDefaultSettings)

FileDeleteBookings == \E id \in 1..MaxBookings : FileDeleteBooking(id)

NextFile ==
    \/ FilePostBookings
    \/ FilePatchBookingStatuses
    \/ FileDeleteBookings

\* The file-based server, every request run to completion, settings.json unchanged.
SpecFile == Init /\ [][NextFile]_vars

\* payloads of POST /api/bookings of the legacy server: Monday 10:00-11:00 and
\* 10:30-11:00, Tuesday 10:00-10:30, and one without a duration
LegacyRequests ==
    { [date |-> 2, slots |-> << <<10, 0>>, <<10, 30>> >>, duration |-> 60],
      [date |-> 2, slots |-> << <<10, 30>> >>, duration |-> 30],
      [date |-> 3, slots |-> << <<10, 0>> >>, duration |-> 30],
      [date |-> 2, slots |-> << <<11, 0>> >>, duration |-> 0] }

LegacyPostBookings == \E payload \in LegacyRequests : LegacyPostBooking(payload)

LegacyPatchBookings ==
    \E id \in 1..MaxBookings, status \in StatusInputs : LegacyPatchBooking(id, status)

LegacyDeleteBookings == \E id \in 1..MaxBookings : LegacyDeleteBooking(id)

NextLegacy ==
    \/ LegacyPostBookings
    \/ LegacyPatchBookings
    \/ LegacyDeleteBookings

\* The legacy file-based server, every request run to completion.
SpecLegacy == Init /\ [][NextLegacy]_vars

\* bodies of PUT /api/settings of the file-based server: slot intervals of 30, 15, 0
\* and -30 minutes
FileSettingsBodies ==
    { [bookingRules |-> [slotInterval |-> si, autoConfirm |-> FALSE]] :
        si \in {30, 15, 0, -30} }

\* requests are served as long as no handler is inside a loop that does not end
FileServing == resp # NoResponse

FilePutSettingsAny ==
    \E body \in FileSettingsBodies : FileServing /\ FilePutSettings(body)

FilePostBookingsAsSet ==
    \E payload \in FileRequests : FileServing /\ FilePostBooking(payload, fileSettings)

FilePatchBookingStatusesAsSet ==
    \E id \in 1..MaxBookings, status \in StatusInputs :
        FileServing /\ FilePatchBookingStatus(id, status, fileSettings)

FileDeleteBookingsAsSet ==
    \E id \in 1..MaxBookings : FileServing /\ FileDeleteBooking(id)

NextFileSettings ==
    \/ FilePutSettingsAny
    \/ FilePostBookingsAsSet
    \/ FilePatchBookingStatusesAsSet
    \/ FileDeleteBookingsAsSet

\* The file-based server with settings.json changed by PUT /api/settings, every
\* request run to completion.
SpecFileSettings == Init /\ [][NextFileSettings]_vars

\* the create payloads of the concurrent requests: Monday 10:00-11:00 and
\* 11:00-11:30, Tuesday 10:00-10:30
ConcurrentFileRequests ==
    { FilePayload(2, <<10, 0>>, << <<10, 0>>, <<10, 30>> >>),
      FilePayload(2, <<11, 0>>, << <<11, 0>> >>),
      FilePayload(3, <<10, 0>>, << <<10, 0>> >>) }

FilePostReceives ==
    \E p \in Handlers, payload \in ConcurrentFileRequests : FilePostReceive(p, payload)

FilePostAwaits == \E p \in Handlers : FilePostAwait(p)

FilePostSaves == \E p \in Handlers : FilePostSave(p)

FilePatchReceives ==
    \E p \in Handlers, id \in 1..MaxBookings, status \in validStatuses :
        FilePatchReceive(p, id, status)

FilePatchAwaits == \E p \in Handlers : FilePatchAwait(p)

FilePatchSaves == \E p \in Handlers : FilePatchSave(p)

\* two PATCH /api/bookings/:id/status requests interleaving at their awaits
NextFileConcurrent ==
    \/ FilePostBookings
    \/ FilePatchReceives
    \/ FilePatchAwaits
    \/ FilePatchSaves

SpecFileConcurrent == Init /\ [][NextFileConcurrent]_vars

FilePostFirstBookings ==
    \E payload \in ConcurrentFileRequests :
        nextFileId = 0 /\ FilePostBooking(payload, fileSettings)

\* a first booking, then two requests, each a POST /api/bookings or a
\* PATCH /api/bookings/:id/status, interleaving at their awaits
NextFileWrites ==
    \/ FilePostFirstBookings
    \/ FilePostReceives
    \/ FilePostAwaits
    \/ FilePostSaves
    \/ FilePatchReceives
    \/ FilePatchAwaits
    \/ FilePatchSaves

SpecFileWrites == Init /\ [][NextFileWrites]_vars

\* a call of a pricing function about to be made, on an empty database
InitPure ==
    /\ bookings = <<>>
    /\ nextBookingId = 0
    /\ catalog = <<>>
    /\ nextCatalogId = 0
    /\ classes = <<>>
    /\ nextClassId = 0
    /\ settings = defaultSettings
    /\ now = 0
    /\ resp = [code |-> 0, err |-> ""]
    /\ inflight = [p \in Handlers |-> Idle]
    /\ classBookings = <<>>
    /\ nextClassBookingId = 0
    /\ fileBookings = <<>>
    /\ nextFileId = 0
    /\ fileSettings = fileDefaultSettings
    /\ activeAdminTokens = <<>>
    /\ dateNow = 0
    /\ call \in PeriodCalls \cup PriceCalls

\* settings.json of the file-based server with the given prices and slot interval
FileSettings(thirtyMinutes, sundayAirconFee, slotInterval) ==
    [fileDefaultSettings EXCEPT !.pricing = [thirtyMinutes |-> thirtyMinutes,
                                              sundayAirconFee |-> sundayAirconFee],
                                !.bookingRules.slotInterval = slotInterval]

\* calls of calculateTotalPrice: prices 140, 100 and 0, fees 80 and 0, slot intervals
\* of 15, 20, 30 and 45 minutes, one to MaxSlots slots, the seven days of a week
TotalPriceCalls ==
    { [fn |-> "calculateTotalPrice",
       settings |-> FileSettings(thirtyMinutes, sundayAirconFee, slotInterval),
       durationMinutes |-> slotInterval * k,
       date |-> date,
       done |-> FALSE,
       result |-> 0] :
        thirtyMinutes \in {14000, 10000, 0}, sundayAirconFee \in {8000, 0},
        slotInterval \in {15, 20, 30, 45}, k \in 1..MaxSlots, date \in 1..7 }

InitFilePrice ==
    /\ bookings = <<>>
    /\ nextBookingId = 0
    /\ catalog = <<>>
    /\ nextCatalogId = 0
    /\ classes = <<>>
    /\ nextClassId = 0
    /\ settings = defaultSettings
    /\ now = 0
    /\ resp = [code |-> 0, err |-> ""]
    /\ inflight = [p \in Handlers |-> Idle]
    /\ classBookings = <<>>
    /\ nextClassBookingId = 0
    /\ fileBookings = <<>>
    /\ nextFileId = 0
    /\ fileSettings = fileDefaultSettings
    /\ activeAdminTokens = <<>>
    /\ dateNow = 0
    /\ call \in TotalPriceCalls

NextFilePrice == CalculateTotalPriceCall

\* calculateTotalPrice of the file-based server applied to each of TotalPriceCalls
SpecFilePrice == InitFilePrice /\ [][NextFilePrice]_vars

NextPure ==
    \/ DeterminePeriodTypeCall
    \/ CalculateRoomRentalPriceCall

SpecPure == InitPure /\ [][NextPure]_vars

----------------------------------------------------------------------------
(* Properties *)

\* half-open interval overlap of two clock-time ranges, in minutes
Overlap(s1, e1, s2, e2) ==
    /\ parseTimeToMinutes(s1) < parseTimeToMinutes(e2)
    /\ parseTimeToMinutes(s2) < parseTimeToMinutes(e1)

Active(b) == bookings[b].status \in {"pending", "confirmed"}

RoomItemsOverlap(x, y) ==
    /\ x.itemType = "room_rental"
    /\ y.itemType = "room_rental"
    /\ x.date = y.date
    /\ Overlap(x.startTime, x.endTime, y.startTime, y.endTime)

\* C1: no two room_rental items of different pending or confirmed bookings on the
\* same date have overlapping [startTime, endTime) ranges.
C1_NoDoubleBooking ==
    \A b1 \in DOMAIN bookings, b2 \in DOMAIN bookings :
        (b1 # b2 /\ Active(b1) /\ Active(b2)) =>
            \A i \in 1..Len(bookings[b1].items), j \in 1..Len(bookings[b2].items) :
                ~ RoomItemsOverlap(bookings[b1].items[i], bookings[b2].items[j])

\* the headcount the active bookings other than "except" hold of catalog item c
HeldCapacity(c, except) ==
    SumOver(bookings, {b \in DOMAIN bookings : Active(b) /\ b # except}, c)

\* C2: for every catalog item, the sum of peopleCount over the items of pending or
\* confirmed bookings that reference it is at most the item's current capacity.
C2_CapacityNeverExceeded ==
    \A c \in DOMAIN catalog : HeldCapacity(c, 0) <= catalog[c].capacity

\* the two requests cannot both be granted: a room range of one overlaps a room
\* range of the other, or both ask for catalog item 1, together for more than it holds
Clash(r1, r2) ==
    \/ \E i \in 1..Len(r1.items), j \in 1..Len(r2.items) :
            /\ r1.items[i].catalogItemId = 0
            /\ r2.items[j].catalogItemId = 0
            /\ r1.items[i].date = r2.items[j].date
            /\ Overlap(r1.items[i].startTime, r1.items[i].endTime,
                       r2.items[j].startTime, r2.items[j].endTime)
    \/ \E c \in DOMAIN catalog :
            /\ \E i \in 1..Len(r1.items) : r1.items[i].catalogItemId = c
            /\ \E j \in 1..Len(r2.items) : r2.items[j].catalogItemId = c
            /\ r1.items[1].peopleCount + r2.items[1].peopleCount > catalog[c].capacity

\* C3: of two concurrently handled create requests that clash, at most one
\* persists its booking.
C3_CheckAndInsertAtomic ==
    (inflight[1].code = 201 /\ inflight[2].code = 201)
        => ~ Clash(inflight[1].req, inflight[2].req)

\* the room rental of 14:00-15:00 on 2026-11-06 that bookings A and B ask for
Rental14 == Request(<<AdHoc(6, <<14, 0>>, <<15, 0>>, 1)>>)

IsRental14In(bk, b, status) ==
    /\ b \in DOMAIN bk
    /\ bk[b].status = status
    /\ Len(bk[b].items) = 1
    /\ bk[b].items[1].itemType = "room_rental"
    /\ bk[b].items[1].date = 6
    /\ bk[b].items[1].startTime = <<14, 0>>
    /\ bk[b].items[1].endTime = <<15, 0>>

IsRental14(b, status) == IsRental14In(bookings, b, status)

EmptyStore == bookings = <<>> /\ classes = <<>> /\ catalog = <<>>

\* booking A is created, as pending, in an empty store with autoConfirm off
C4_CreateA ==
    (EmptyStore /\ ~ settings.autoConfirm /\ PostBooking(Rental14))
        => (resp'.code = 201 /\ IsRental14In(bookings', nextBookingId', "pending"))

\* confirming A, the only booking, succeeds
C4_ConfirmA ==
    \A a \in 1..MaxBookings :
        (DOMAIN bookings = {a} /\ IsRental14(a, "pending")
            /\ PatchBookingStatus(a, "confirmed", Undefined))
        => (resp'.code = 200 /\ bookings'[a].status = "confirmed")

RequestOverlapsStored(req, statuses) ==
    \E i \in 1..Len(req.items), b \in DOMAIN bookings :
        /\ bookings[b].status \in statuses
        /\ \E j \in 1..Len(bookings[b].items) :
            /\ bookings[b].items[j].itemType = "room_rental"
            /\ bookings[b].items[j].date = req.items[i].date
            /\ Overlap(req.items[i].startTime, req.items[i].endTime,
                       bookings[b].items[j].startTime, bookings[b].items[j].endTime)

C6_OnlyForwardTransitions ==
    [][ \A b \in (DOMAIN bookings) \cap (DOMAIN bookings') :
            \/ bookings'[b].status = bookings[b].status
            \/ <<bookings[b].status, bookings'[b].status>> \in
                    { <<"pending", "confirmed">>, <<"pending", "cancelled">>,
                      <<"confirmed", "cancelled">> }
      ]_vars

\* a room_rental item of booking id overlaps, on its date, a room_rental item of
\* another pending or confirmed booking
OverlapsOtherActive(id) ==
    \E i \in 1..Len(bookings[id].items), b \in (DOMAIN bookings) \ {id} :
        /\ Active(b)
        /\ \E j \in 1..Len(bookings[b].items) :
                RoomItemsOverlap(bookings[id].items[i], bookings[b].items[j])

\* a room_rental item of booking id overlaps a class of its date
OverlapsClass(id) ==
    \E i \in 1..Len(bookings[id].items), c \in DOMAIN classes :
        /\ bookings[id].items[i].itemType = "room_rental"
        /\ classes[c].date = bookings[id].items[i].date
        /\ Overlap(bookings[id].items[i].startTime, bookings[id].items[i].endTime,
                   classes[c].startTime, classes[c].endTime)

\* for an item of booking id, what the other active bookings hold of its catalog
\* item plus the item's own headcount is more than the catalog item's capacity
ExceedsCapacity(id) ==
    \E i \in 1..Len(bookings[id].items) :
        LET c == bookings[id].items[i].catalogItemId
        IN  /\ c \in DOMAIN catalog
            /\ HeldCapacity(c, id) + bookings[id].items[i].peopleCount > catalog[c].capacity

RevalidationFinds(id) == OverlapsOtherActive(id) \/ OverlapsClass(id) \/ ExceedsCapacity(id)

\* C7: a PATCH to confirmed on a pending booking that finds a room conflict or an
\* exceeded capacity is answered with an error and leaves the stored booking as it
\* was: status, confirmedAt, updatedAt and adminNotes keep their values.
C7_RejectedConfirmChangesNothing ==
    [][ \A id \in 1..MaxBookings, adminNotes \in AdminNotesInputs :
            ( /\ id \in DOMAIN bookings
              /\ bookings[id].status = "pending"
              /\ RevalidationFinds(id)
              /\ PatchBookingStatus(id, "confirmed", adminNotes) )
            => (resp'.code >= 400 /\ bookings' = bookings)
      ]_vars

\* the confirmation of pending booking 1, which asks for more seats than catalog
\* item 1 now has, was refused
C7_Witness ==
    /\ 1 \in DOMAIN bookings
    /\ bookings[1].status = "pending"
    /\ bookings[1].confirmedAt = 0
    /\ bookings[1].updatedAt = 1
    /\ ExceedsCapacity(1)
    /\ resp = [code |-> 400, err |-> "conflict"]

\* C8: a confirmedAt or cancelledAt that has been written is never overwritten.
C8_TimestampsWrittenOnce ==
    [][ \A b \in (DOMAIN bookings) \cap (DOMAIN bookings') :
            /\ bookings[b].confirmedAt # 0
                    => bookings'[b].confirmedAt = bookings[b].confirmedAt
            /\ bookings[b].cancelledAt # 0
                    => bookings'[b].cancelledAt = bookings[b].cancelledAt
      ]_vars

\* C9: a PATCH to confirmed on an already confirmed booking succeeds unless the
\* re-validation finds a room conflict or an exceeded capacity, and then it is rejected.
C9_ReconfirmRevalidates ==
    [][ \A id \in 1..MaxBookings, adminNotes \in AdminNotesInputs :
            ( /\ id \in DOMAIN bookings
              /\ bookings[id].status = "confirmed"
              /\ PatchBookingStatus(id, "confirmed", adminNotes) )
            => IF RevalidationFinds(id) THEN resp'.code >= 400 ELSE resp'.code = 200
      ]_vars

\* every item of the request is a room rental of positive length within the
\* operating hours for 1 to 18 people
WellFormedRoomRequest(req) ==
    /\ Len(req.items) > 0
    /\ \A i \in 1..Len(req.items) :
        LET item == req.items[i]
        IN  /\ item.catalogItemId = 0
            /\ item.type \in {"", "room_rental"}
            /\ item.date # NoDate
            /\ item.peopleCount \in 1..MaxPeoplePerItem
            /\ parseTimeToMinutes(item.startTime) < parseTimeToMinutes(item.endTime)
            /\ parseTimeToMinutes(item.startTime)
                    >= parseTimeToMinutes(settings.operatingHours.startTime)
            /\ parseTimeToMinutes(item.endTime)
                    <= parseTimeToMinutes(settings.operatingHours.endTime)

\* two items of the request overlap on the same date
InPayloadOverlap(req) ==
    \E i \in 1..Len(req.items), j \in 1..Len(req.items) :
        /\ i < j
        /\ req.items[i].date = req.items[j].date
        /\ Overlap(req.items[i].startTime, req.items[i].endTime,
                   req.items[j].startTime, req.items[j].endTime)

\* C10: room-rental ranges conflict iff each starts strictly before the other ends:
\* a well-formed room request is created iff none of its ranges overlaps, as a
\* half-open range, a range of an active booking or of the same request, and a
\* pending room booking is confirmed iff none of its ranges overlaps a range of
\* another active booking; ranges that only touch (10:00-11:00, 11:00-12:00) never
\* stand in each other's way.
C10_TouchingRangesDoNotConflict ==
    [][ /\ \A req \in RoomRequests :
            (WellFormedRoomRequest(req) /\ PostBooking(req))
            => (resp'.code = 201
                    <=> ~ (RequestOverlapsStored(req, {"pending", "confirmed"})
                            \/ InPayloadOverlap(req)))
        /\ \A id \in 1..MaxBookings :
            ( /\ id \in DOMAIN bookings
              /\ bookings[id].status = "pending"
              /\ PatchBookingStatus(id, "confirmed", Undefined) )
            => (resp'.code = 200 <=> ~ OverlapsOtherActive(id))
      ]_vars

\* the bookings for 10:00-11:00 and 11:00-12:00 of 2026-11-06 are both confirmed
C10_Witness ==
    /\ DOMAIN bookings = {1, 2}
    /\ bookings[1].status = "confirmed"
    /\ bookings[2].status = "confirmed"
    /\ \E a \in {1, 2}, b \in {1, 2} :
        /\ Len(bookings[a].items) = 1
        /\ Len(bookings[b].items) = 1
        /\ bookings[a].items[1].date = 6
        /\ bookings[a].items[1].startTime = <<10, 0>>
        /\ bookings[a].items[1].endTime = <<11, 0>>
        /\ bookings[b].items[1].date = 6
        /\ bookings[b].items[1].startTime = <<11, 0>>
        /\ bookings[b].items[1].endTime = <<12, 0>>
    /\ bookings[1].confirmedAt > 2
    /\ bookings[2].confirmedAt > 2
    /\ resp.code = 200

\* no room_rental item of an active booking and no class overlaps the range
RoomFree(date, startTime, endTime) ==
    /\ \A b \in DOMAIN bookings : \A j \in 1..Len(bookings[b].items) :
            ~ ( /\ Active(b)
                /\ bookings[b].items[j].itemType = "room_rental"
                /\ bookings[b].items[j].date = date
                /\ Overlap(startTime, endTime, bookings[b].items[j].startTime,
                           bookings[b].items[j].endTime) )
    /\ \A c \in DOMAIN classes :
            ~ (classes[c].date = date
                /\ Overlap(startTime, endTime, classes[c].startTime, classes[c].endTime))

\* what the active bookings alone leave room for: the seats of the catalog item
\* asked for, and the room when the item is a room rental
FitsBesideActive(req) ==
    LET item == req.items[1]
        c == item.catalogItemId
    IN  IF c # 0
        THEN /\ c \in DOMAIN catalog
             /\ HeldCapacity(c, 0) + item.peopleCount <= catalog[c].capacity
             /\ catalog[c].type = "room_rental"
                    => RoomFree(catalog[c].date, catalog[c].startTime, catalog[c].endTime)
        ELSE RoomFree(item.date, item.startTime, item.endTime)

\* C11: a PATCH to cancelled is accepted for any existing booking without a conflict
\* or capacity check, and from then on the cancelled booking's items are ignored: a
\* create request succeeds exactly when the seats and the range it asks for are free
\* of the bookings that are pending or confirmed.
C11_CancelFreesCapacity ==
    [][ /\ \A id \in 1..MaxBookings, adminNotes \in AdminNotesInputs :
            (id \in DOMAIN bookings /\ PatchBookingStatus(id, "cancelled", adminNotes))
            => /\ resp'.code = 200
               /\ bookings'[id].status = "cancelled"
               /\ bookings'[id].cancelledAt = now'
        /\ \A req \in CatalogRequests :
            PostBooking(req) => (resp'.code = 201 <=> FitsBesideActive(req))
      ]_vars

\* booking 1 was confirmed with every seat of catalog item 1 and then cancelled;
\* booking 2 has been created for every seat of the same item
C11_Witness ==
    /\ DOMAIN bookings = {1, 2}
    /\ 1 \in DOMAIN catalog
    /\ bookings[1].status = "cancelled"
    /\ bookings[1].confirmedAt # 0
    /\ bookings[1].items[1].catalogItemId = 1
    /\ bookings[1].items[1].peopleCount = catalog[1].capacity
    /\ Active(2)
    /\ bookings[2].items[1].catalogItemId = 1
    /\ bookings[2].items[1].peopleCount = catalog[1].capacity
    /\ resp.code = 201

\* the weekday of 2026-11-01 .. 2026-11-07
NovemberWeekday == <<"sun", "mon", "tue", "wed", "thu", "fri", "sat">>

\* the day set names the weekday, in lower case or with a capital
NamesDay(days, weekday) ==
    \/ weekday \in days
    \/ (weekday = "fri" /\ "Fri" \in days)
    \/ (weekday = "sat" /\ "Sat" \in days)
    \/ (weekday = "sun" /\ "Sun" \in days)

\* the call was determinePeriodType(2026-11-06, startTime, endTime) with the default
\* peak schedule (fri, sat, sun; 18:00-23:00), and it has returned
FridayCall(startTime, endTime) ==
    /\ call.fn = "determinePeriodType"
    /\ call.done
    /\ call.date = 6
    /\ call.startTime = startTime
    /\ call.endTime = endTime
    /\ call.settings.pricing.peakSchedule = DEFAULT_PEAK_SCHEDULE

\* C12: determinePeriodType returns 'peak' iff the weekday of the date is in the peak
\* schedule's day set and startTime < peakEnd and endTime > peakStart, and 'normal'
\* otherwise; Friday 17:30-19:00 is peak, Friday 09:00-10:00 and Friday 17:00-18:00
\* are normal.
C12_PeakIffDayAndOverlap ==
    /\ (call.fn = "determinePeriodType" /\ call.done) =>
            LET schedule == call.settings.pricing.peakSchedule
                isPeak == /\ NamesDay(schedule.days, NovemberWeekday[call.date])
                          /\ (call.startTime[1] * 60) + call.startTime[2]
                                < (schedule.endTime[1] * 60) + schedule.endTime[2]
                          /\ (call.endTime[1] * 60) + call.endTime[2]
                                > (schedule.startTime[1] * 60) + schedule.startTime[2]
            IN  call.result = IF isPeak THEN "peak" ELSE "normal"
    /\ FridayCall(<<17, 30>>, <<19, 0>>) => call.result = "peak"
    /\ FridayCall(<<9, 0>>, <<10, 0>>) => call.result = "normal"
    /\ FridayCall(<<17, 0>>, <<18, 0>>) => call.result = "normal"

\* the Friday range that ends where the peak window starts has been classified
C12_Witness ==
    /\ FridayCall(<<17, 0>>, <<18, 0>>)
    /\ call.result = "normal"

\* C13: calculateRoomRentalPrice returns hourly rate * durationMinutes / 60 rounded
\* half-up to 2 decimals, the rate being the UpTo10 setting of the period type for a
\* headcount of at most 10 and the UpTo18 setting for 11..18; a normalUpTo10 rate of
\* 250 with 90 minutes and 4 people gives 375.00.
C13_PriceRoundedHalfUp ==
    /\ (call.fn = "calculateRoomRentalPrice" /\ call.done) =>
            LET pricing == call.settings.pricing
                rate == IF call.peopleCount <= 10
                        THEN (IF call.periodType = "peak" THEN pricing.peakUpTo10
                              ELSE pricing.normalUpTo10)
                        ELSE (IF call.periodType = "peak" THEN pricing.peakUpTo18
                              ELSE pricing.normalUpTo18)
                \* rate * duration / 60 = q + r / 60 cents; half-up adds one cent iff r >= 30
                q == (rate * call.duration) \div 60
                r == (rate * call.duration) % 60
            IN  call.result = IF r >= 30 THEN q + 1 ELSE q
    /\ ( /\ call.fn = "calculateRoomRentalPrice"
          /\ call.done
          /\ call.settings.pricing.normalUpTo10 = 25000
          /\ call.periodType = "normal"
          /\ call.duration = 90
          /\ call.peopleCount = 4 ) => call.result = 37500

\* the request asks for more than 18 people: in an item's own peopleCount, or in the
\* shared peopleCount that applies to an item without a count of its own
AsksAbove18(req) ==
    \E i \in 1..Len(req.items) :
        \/ req.items[i].peopleCount > 18
        \/ (req.items[i].peopleCount <= 0 /\ req.sharedPeopleCount > 18)

\* C14: a create request that asks for a headcount above 18, per item or as the shared
\* peopleCount, is rejected and nothing is persisted.
C14_Above18Rejected ==
    [][ \A req \in ItemRequests :
            (AsksAbove18(req) /\ PostBooking(req))
            => (resp'.code >= 400 /\ UNCHANGED store)
      ]_vars

\* the request has several items, each for 1 to 18 seats of catalog item c
SeveralOf(req, c) ==
    /\ Len(req.items) >= 2
    /\ \A i \in 1..Len(req.items) :
        /\ req.items[i].catalogItemId = c
        /\ req.items[i].peopleCount \in 1..18

\* the seats of catalog item items[i].catalogItemId asked for by the items before i
SeatsBefore(items, i) ==
    IF i <= 1 THEN 0
    ELSE SumPeople(SubSeq(items, 1, i - 1), items[i].catalogItemId)

\* for some item, persisted usage + seats of the earlier items + its own seats
\* exceed the capacity of the catalog item
TallyExceeds(req) ==
    \E i \in 1..Len(req.items) :
        LET c == req.items[i].catalogItemId
        IN  /\ c \in DOMAIN catalog
            /\ HeldCapacity(c, 0) + SeatsBefore(req.items, i) + req.items[i].peopleCount
                    > catalog[c].capacity

\* C15 as claimed: a request with several items of one catalog item is rejected, with
\* nothing persisted, iff for some item persisted usage + headcount of the earlier
\* items + its own headcount exceeds the capacity.
C15_Original ==
    [][ \A req \in ItemRequests, c \in DOMAIN catalog :
            (SeveralOf(req, c) /\ PostBooking(req))
            => ((resp'.code >= 400 /\ UNCHANGED store) <=> TallyExceeds(req))
      ]_vars

\* C15 (amended): such a request is rejected, with nothing persisted, if for some item
\* persisted usage + headcount of the earlier items + its own headcount exceeds the
\* capacity; when the catalog item is not a room_rental it is rejected only then (a
\* request for a room_rental catalog item is also subject to the operating-hours,
\* in-request overlap and availability checks).
C15_RunningTally ==
    [][ \A req \in ItemRequests, c \in DOMAIN catalog :
            (SeveralOf(req, c) /\ PostBooking(req))
            => /\ TallyExceeds(req) => (resp'.code >= 400 /\ UNCHANGED store)
               /\ (catalog[c].type # "room_rental" /\ ~ TallyExceeds(req))
                        => resp'.code = 201
               /\ resp'.code = 201 \/ (resp'.code >= 400 /\ UNCHANGED store)
      ]_vars

\* a booking holds every seat of workshop 1 through two items, and a further request
\* for seats has been refused
C15_Witness ==
    /\ 1 \in DOMAIN catalog
    /\ catalog[1].type = "workshop_class"
    /\ \E b \in DOMAIN bookings :
        /\ Active(b)
        /\ Len(bookings[b].items) = 2
        /\ bookings[b].items[1].catalogItemId = 1
        /\ bookings[b].items[2].catalogItemId = 1
        /\ bookings[b].items[1].peopleCount + bookings[b].items[2].peopleCount
                = catalog[1].capacity
    /\ resp = [code |-> 400, err |-> "conflict"]

\* the item of the request as the handler resolves it: an item that names a catalog
\* item takes its type, date and times from the catalog
Resolved(req, i) ==
    LET item == req.items[i]
        c == item.catalogItemId
    IN  IF c = 0
        THEN [itemType |-> IF item.type = "" THEN "room_rental" ELSE item.type,
              date |-> item.date, startTime |-> item.startTime, endTime |-> item.endTime]
        ELSE IF c \in DOMAIN catalog
        THEN [itemType |-> catalog[c].type, date |-> catalog[c].date,
              startTime |-> catalog[c].startTime, endTime |-> catalog[c].endTime]
        ELSE [itemType |-> "", date |-> NoDate, startTime |-> NoTime, endTime |-> NoTime]

\* two room_rental items of the request have the same date and overlapping ranges
TwoRoomItemsOverlap(req) ==
    \E i \in 1..Len(req.items), j \in 1..Len(req.items) :
        /\ i < j
        /\ Resolved(req, i).itemType = "room_rental"
        /\ Resolved(req, j).itemType = "room_rental"
        /\ Resolved(req, i).date # NoDate
        /\ Resolved(req, i).date = Resolved(req, j).date
        /\ Overlap(Resolved(req, i).startTime, Resolved(req, i).endTime,
                   Resolved(req, j).startTime, Resolved(req, j).endTime)

\* C16: a create request in which two room_rental items have the same date and
\* overlapping [startTime, endTime) ranges is rejected with a 400 validation response
\* and no booking or item is persisted; a well-formed request whose items only touch
\* at an endpoint, and which overlaps nothing stored, is created.
C16_InPayloadOverlapRejected ==
    [][ \A req \in ItemRequests :
            /\ (TwoRoomItemsOverlap(req) /\ PostBooking(req))
                => (resp'.code = 400 /\ UNCHANGED store)
            /\ ( /\ Len(req.items) >= 2
                 /\ WellFormedRoomRequest(req)
                 /\ ~ InPayloadOverlap(req)
                 /\ \A i \in 1..Len(req.items) :
                        RoomFree(req.items[i].date, req.items[i].startTime,
                                 req.items[i].endTime)
                 /\ PostBooking(req) )
                => resp'.code = 201
      ]_vars

\* the booking of 10:00-11:00 and 11:00-12:00 in one request is stored, and a request
\* with overlapping items has been refused with a validation error
C16_Witness ==
    /\ \E b \in DOMAIN bookings :
        /\ Len(bookings[b].items) = 2
        /\ bookings[b].items[1].itemType = "room_rental"
        /\ bookings[b].items[2].itemType = "room_rental"
        /\ bookings[b].items[1].date = bookings[b].items[2].date
        /\ bookings[b].items[1].endTime = bookings[b].items[2].startTime
    /\ resp = [code |-> 400, err |-> "validation"]

\* an item of the request overlaps a class of its date
RequestOverlapsClass(req) ==
    \E i \in 1..Len(req.items), c \in DOMAIN classes :
        /\ classes[c].date = req.items[i].date
        /\ Overlap(req.items[i].startTime, req.items[i].endTime,
                   classes[c].startTime, classes[c].endTime)

\* C17: a room-rental create request, and a confirmation of a room-rental booking
\* that is not confirmed yet, is rejected with nothing changed when its range overlaps
\* the range of a class of the same date, whether or not an item of another booking
\* overlaps it; a well-formed request that overlaps no item of an active booking and
\* at most touches the classes is created.
C17_ClassBlocksRoomRental ==
    [][ /\ \A req \in ClassRoomRequests :
            /\ (RequestOverlapsClass(req) /\ PostBooking(req))
                => (resp'.code = 400 /\ UNCHANGED store)
            /\ ( /\ WellFormedRoomRequest(req)
                 /\ ~ RequestOverlapsClass(req)
                 /\ ~ RequestOverlapsStored(req, {"pending", "confirmed"})
                 /\ PostBooking(req) )
                => resp'.code = 201
        /\ \A id \in 1..MaxBookings :
            ( /\ id \in DOMAIN bookings
              /\ bookings[id].status # "confirmed"
              /\ OverlapsClass(id)
              /\ PatchBookingStatus(id, "confirmed", Undefined) )
            => (resp'.code = 400 /\ UNCHANGED store)
      ]_vars

\* booking 1 overlaps the class and no other booking, is still pending after its
\* confirmation was refused, and booking 2, which touches the class, was created
C17_Witness ==
    /\ DOMAIN bookings = {1, 2}
    /\ bookings[1].status = "pending"
    /\ OverlapsClass(1)
    /\ ~ OverlapsOtherActive(1)
    /\ ~ OverlapsClass(2)
    /\ \E c \in DOMAIN classes :
            /\ classes[c].date = bookings[2].items[1].date
            /\ classes[c].startTime = bookings[2].items[1].endTime
    /\ resp = [code |-> 400, err |-> "conflict"]

\* C18: every booking item persisted by POST /api/bookings, ad hoc or derived from a
\* catalog item, has endTime strictly after startTime and duration equal to
\* endTime - startTime in minutes.
C18_ItemDurationMatchesRange ==
    \A b \in DOMAIN bookings : \A i \in 1..Len(bookings[b].items) :
        LET item == bookings[b].items[i]
        IN  /\ parseTimeToMinutes(item.startTime) < parseTimeToMinutes(item.endTime)
            /\ item.duration
                    = parseTimeToMinutes(item.endTime) - parseTimeToMinutes(item.startTime)

\* C19: every booking item persisted by POST /api/bookings, of any item type, lies
\* within the operating hours of the settings in force when the request is handled.
C19_ItemsWithinOperatingHours ==
    [][ \A req \in ItemRequests :
            (PostBooking(req) /\ resp'.code = 201)
            => \A i \in 1..Len(bookings'[nextBookingId'].items) :
                LET item == bookings'[nextBookingId'].items[i]
                IN  /\ parseTimeToMinutes(settings.operatingHours.startTime)
                            <= parseTimeToMinutes(item.startTime)
                    /\ parseTimeToMinutes(item.endTime)
                            <= parseTimeToMinutes(settings.operatingHours.endTime)
      ]_vars

C21_TotalIsSumAndPriceFixed ==
    [][ /\ \A b \in DOMAIN bookings' :
            bookings'[b].totalPrice = SumPrice(bookings'[b].items)
        /\ \A id \in 1..MaxBookings, status \in StatusInputs :
            (id \in DOMAIN bookings /\ PatchBookingStatus(id, status, Undefined))
            => \A b \in DOMAIN bookings :
                /\ b \in DOMAIN bookings'
                /\ bookings'[b].totalPrice = bookings[b].totalPrice
                /\ Len(bookings'[b].items) = Len(bookings[b].items)
                /\ \A i \in 1..Len(bookings[b].items) :
                    /\ bookings'[b].items[i].price = bookings[b].items[i].price
                    /\ bookings'[b].items[i].periodType = bookings[b].items[i].periodType
      ]_vars

\* a confirmed booking of two items keeps the tags and prices it was created with,
\* although the settings in force now would tag or price an item differently
C21_Witness ==
    \E b \in DOMAIN bookings :
        /\ bookings[b].status = "confirmed"
        /\ Len(bookings[b].items) = 2
        /\ bookings[b].totalPrice
                = bookings[b].items[1].price + bookings[b].items[2].price
        /\ bookings[b].items[1].price > 0
        /\ bookings[b].items[2].price > 0
        /\ \E i \in 1..2 :
            LET item == bookings[b].items[i]
            IN  \/ item.periodType
                        # determinePeriodType(item.date, item.startTime, item.endTime,
                                              settings)
                \/ item.price
                        # calculateRoomRentalPrice(item.duration, item.peopleCount,
                                                   item.periodType, settings)

\* C22: once a booking is stored, no operation changes a field of its booking items,
\* and of the booking's own fields only status, admin notes and the update, confirm
\* and cancel timestamps change.
C22_ItemsImmutable ==
    [][ \A b \in DOMAIN bookings :
            b \in DOMAIN bookings'
            => /\ bookings'[b].items = bookings[b].items
               /\ bookings'[b].totalPrice = bookings[b].totalPrice
      ]_vars

\* the call of createBooking is in phase ph
InPhase(c, ph) == c.fn = "createBooking" /\ c.phase = ph

\* C23: createBooking persists the booking row and all of its item rows as one unit:
\* the visible tables change only when the call returns, and then by exactly one
\* booking that has the status and every item of the request; a call in which an
\* insert or the commit fails throws and leaves the visible tables as they were.
C23_CreateBookingAtomic ==
    [][ /\ bookings' # bookings
            => /\ InPhase(call, "insertItems")
               /\ InPhase(call', "returned")
        /\ (InPhase(call', "returned") /\ ~ InPhase(call, "returned"))
            => /\ DOMAIN bookings' = (DOMAIN bookings) \cup {nextBookingId'}
               /\ nextBookingId' \notin DOMAIN bookings
               /\ \A b \in DOMAIN bookings : bookings'[b] = bookings[b]
               /\ bookings'[nextBookingId'].items = call.data.items
               /\ bookings'[nextBookingId'].status = call.data.status
        /\ (InPhase(call', "thrown") /\ ~ InPhase(call, "thrown"))
            => UNCHANGED store
      ]_vars

\* a call has thrown after it had inserted the booking row and some of the item rows,
\* and the tables show only the booking of an earlier call, with both of its items
C23_Witness ==
    /\ InPhase(call, "thrown")
    /\ call.bookingRow
    /\ Len(call.itemRows) >= 1
    /\ Len(call.itemRows) < Len(call.data.items)
    /\ DOMAIN bookings = {1}
    /\ Len(bookings[1].items) = 2

\* C24: for every class, the people of its class bookings that are pending or
\* confirmed are at most as many as the class's current capacity.
C24_ClassCapacityNeverExceeded ==
    \A c \in DOMAIN classes :
        getClassCapacityUsage(classBookings, c, 0) <= classes[c].capacity

RECURSIVE SeatsOfItems(_, _, _, _)
\* the people of items i..Len of booking b in table bk that reference catalog item c
SeatsOfItems(bk, b, i, c) ==
    IF i > Len(bk[b].items) THEN 0
    ELSE (IF bk[b].items[i].catalogItemId = c THEN bk[b].items[i].peopleCount ELSE 0)
         + SeatsOfItems(bk, b, i + 1, c)

RECURSIVE SeatsOfActive(_, _, _, _)
\* the people of the items that reference c in the pending and confirmed bookings
\* 1..n of table bk, booking ex left out
SeatsOfActive(bk, n, c, ex) ==
    IF n = 0 THEN 0
    ELSE (IF n \in DOMAIN bk /\ n # ex /\ bk[n].status \in {"pending", "confirmed"}
          THEN SeatsOfItems(bk, n, 1, c) ELSE 0)
         + SeatsOfActive(bk, n - 1, c, ex)

\* the one item of the request asks for seats of a catalog item that is no room rental
AsksSeatsOnly(req) ==
    /\ Len(req.items) = 1
    /\ req.items[1].catalogItemId \in DOMAIN catalog
    /\ catalog[req.items[1].catalogItemId].type # "room_rental"
    /\ req.items[1].peopleCount \in 1..MaxPeoplePerItem

\* booking id is pending and its one item holds seats of a catalog item that is no
\* room rental
HoldsSeatsOnly(id) ==
    /\ id \in DOMAIN bookings
    /\ bookings[id].status = "pending"
    /\ Len(bookings[id].items) = 1
    /\ bookings[id].items[1].catalogItemId \in DOMAIN catalog
    /\ bookings[id].items[1].itemType # "room_rental"

\* C25: getCatalogItemCapacityUsage(resourceId, excludeBookingId) is the sum of
\* peopleCount over the booking items that reference resourceId in pending and
\* confirmed bookings, excludeBookingId left out; a create and a confirmation admit
\* a headcount h iff that sum + h <= the catalog item's capacity, equality included.
C25_AdmitIffWithinCapacity ==
    [][ /\ \A c \in CatalogIds, ex \in 0..MaxBookings :
            getCatalogItemCapacityUsage(bookings', c, ex)
                = SeatsOfActive(bookings', nextBookingId', c, ex)
        /\ \A req \in CatalogRequests :
            (AsksSeatsOnly(req) /\ PostBooking(req))
            => (resp'.code = 201
                <=> SeatsOfActive(bookings, nextBookingId, req.items[1].catalogItemId, 0)
                        + req.items[1].peopleCount
                    <= catalog[req.items[1].catalogItemId].capacity)
        /\ \A id \in 1..MaxBookings :
            (HoldsSeatsOnly(id) /\ PatchBookingStatus(id, "confirmed", Undefined))
            => (resp'.code = 200
                <=> SeatsOfActive(bookings, nextBookingId,
                                  bookings[id].items[1].catalogItemId, id)
                        + bookings[id].items[1].peopleCount
                    <= catalog[bookings[id].items[1].catalogItemId].capacity)
      ]_vars

\* a booking that takes every seat of catalog item 1 was created and confirmed, and
\* a cancelled booking for the same item is not counted
C25_Witness ==
    /\ 1 \in DOMAIN catalog
    /\ catalog[1].type = "workshop_class"
    /\ DOMAIN bookings = {1, 2}
    /\ \E a \in {1, 2}, b \in {1, 2} :
        /\ bookings[a].status = "confirmed"
        /\ bookings[a].items[1].catalogItemId = 1
        /\ bookings[a].items[1].peopleCount = catalog[1].capacity
        /\ bookings[b].status = "cancelled"
        /\ bookings[b].items[1].catalogItemId = 1
    /\ getCatalogItemCapacityUsage(bookings, 1, 0) = catalog[1].capacity
    /\ resp.code = 200

\* the slot labels a create payload asks for
RequestedLabels(payload) == {payload.selectedSlots[i] : i \in 1..Len(payload.selectedSlots)}

\* booking id of the file is on the date of the payload and shares a slot label with it
SharesLabel(id, payload) ==
    /\ fileBookings[id].date = payload.date
    /\ fileBookings[id].selectedSlots \cap RequestedLabels(payload) # {}

\* C26: in the file-based server a create request is answered with the slot conflict
\* only when a confirmed booking on the same date shares one of its slot labels;
\* pending and cancelled bookings on the same slots never make it rejected.
C26_OnlyConfirmedBlocksCreate ==
    [][\A payload \in FileRequests :
          ( /\ FilePostBooking(payload, fileDefaultSettings)
            /\ resp'.err = "conflict" )
          => \E id \in DOMAIN fileBookings :
                 fileBookings[id].status = "confirmed" /\ SharesLabel(id, payload)]_vars

\* a create was just rejected for a conflict while the file holds a confirmed booking
\* that was admitted on the very slot a pending booking already had
C26_Witness ==
    /\ resp = [code |-> 400, err |-> "conflict"]
    /\ DOMAIN fileBookings = {1, 2}
    /\ fileBookings[1].status = "pending"
    /\ fileBookings[2].status = "confirmed"
    /\ fileBookings[1].date = fileBookings[2].date
    /\ fileBookings[1].selectedSlots \cap fileBookings[2].selectedSlots # {}

\* the time range [startTime, startTime + duration) of booking id, in minutes
FileStart(id) == timeStringToMinutes(fileBookings[id].startTime)
FileEnd(id) == FileStart(id) + fileBookings[id].duration

\* two different confirmed bookings of the file on one date with overlapping ranges
ConfirmedOverlap(a, b) ==
    /\ a # b
    /\ fileBookings[a].status = "confirmed"
    /\ fileBookings[b].status = "confirmed"
    /\ fileBookings[a].date = fileBookings[b].date
    /\ FileStart(a) < FileEnd(b)
    /\ FileStart(b) < FileEnd(a)

\* C27: in the file-based server, after any sequence of create, status-change and
\* delete requests run to completion with settings unchanged, no two confirmed
\* bookings on the same date have overlapping ranges [startTime, startTime + duration).
C27_NoConfirmedOverlap ==
    \A a, b \in DOMAIN fileBookings : ~ ConfirmedOverlap(a, b)

\* the two requests in flight ask to confirm two different bookings of the file that
\* are on one date and share a slot label
TwoConfirmsOfSharedSlot ==
    /\ \A p \in Handlers : inflight[p].phase # "idle" /\ inflight[p].status = "confirmed"
    /\ inflight[1].id # inflight[2].id
    /\ {inflight[1].id, inflight[2].id} \subseteq DOMAIN fileBookings
    /\ fileBookings[inflight[1].id].date = fileBookings[inflight[2].id].date
    /\ fileBookings[inflight[1].id].selectedSlots
           \cap fileBookings[inflight[2].id].selectedSlots # {}

\* C28: in the file-based server, when two pending bookings that share a slot on one
\* date are confirmed by two PATCH requests interleaving at every awaited file read
\* and write, at most one of the two bookings is confirmed in the file.
C28_AtMostOneConfirmed ==
    TwoConfirmsOfSharedSlot
    => \E p \in Handlers : fileBookings[inflight[p].id].status # "confirmed"

\* both requests passed the availability check and were answered 200; the later
\* write replaced the earlier one
C28_Witness ==
    /\ TwoConfirmsOfSharedSlot
    /\ \A p \in Handlers : inflight[p].phase = "done" /\ inflight[p].code = 200
    /\ \E p \in Handlers : fileBookings[inflight[p].id].status = "confirmed"

\* a call of calculateTotalPrice has returned
PriceReturned == call.fn = "calculateTotalPrice" /\ call.done

\* the Sunday fee of the call: the fee times the started hours
SundayFeeOf(c) ==
    IF getDay(c.date) = 0 /\ c.settings.pricing.sundayAirconFee > 0
    THEN c.settings.pricing.sundayAirconFee
            * (CHOOSE h \in 0..c.durationMinutes :
                   60 * (h - 1) < c.durationMinutes /\ c.durationMinutes <= 60 * h)
    ELSE 0

\* thirtyMinutes x (durationMinutes / 30), times 30 to stay in the integers
ThirtyTimesBase(c) == c.settings.pricing.thirtyMinutes * c.durationMinutes

\* C29 as stated: calculateTotalPrice returns thirtyMinutes x (durationMinutes / 30)
\* plus, on a Sunday with a positive fee, sundayAirconFee x ceil(durationMinutes / 60).
C29_Original ==
    PriceReturned => 30 * call.result = ThirtyTimesBase(call) + (30 * SundayFeeOf(call))

\* the call is made with the default prices and slot interval
DefaultPriceCall(c, durationMinutes) ==
    /\ c.settings = fileDefaultSettings
    /\ c.durationMinutes = durationMinutes

\* C29: calculateTotalPrice returns thirtyMinutes x (durationMinutes / 30) plus the
\* Sunday fee, sundayAirconFee x ceil(durationMinutes / 60) when the date is a Sunday
\* and the fee is positive, rounded to the nearest cent (a half cent upwards); with
\* the default settings 60 minutes cost 280 on Monday to Saturday and 360 on Sunday,
\* and 30 minutes cost 140 on Monday to Saturday.
C29_PriceRoundedToCent ==
    PriceReturned =>
        /\ 60 * call.result <= (2 * ThirtyTimesBase(call)) + (60 * SundayFeeOf(call)) + 30
        /\ 60 * call.result > (2 * ThirtyTimesBase(call)) + (60 * SundayFeeOf(call)) - 30
        /\ (DefaultPriceCall(call, 60) /\ getDay(call.date) # 0) => call.result = 28000
        /\ (DefaultPriceCall(call, 60) /\ getDay(call.date) = 0) => call.result = 36000
        /\ (DefaultPriceCall(call, 30) /\ getDay(call.date) # 0) => call.result = 14000

\* 20 minutes at 140 per half hour with a slot interval of 20 minutes: 93.33, where
\* 140 x (20 / 30) is 93.333...
C29_Witness ==
    /\ PriceReturned
    /\ call.settings.pricing.thirtyMinutes = 14000
    /\ call.durationMinutes = 20
    /\ getDay(call.date) # 0
    /\ call.result = 9333

\* another confirmed booking of the legacy file holds a slot of booking id on its date
LegacySlotHeld(id) ==
    \E other \in DOMAIN fileBookings \ {id} :
        /\ fileBookings[other].status = "confirmed"
        /\ fileBookings[other].date = fileBookings[id].date
        /\ fileBookings[other].slots \cap fileBookings[id].slots # {}

\* C30: in the legacy file-based server a PATCH /api/bookings/:id that sets a booking
\* to confirmed is rejected, and the booking keeps its status, when another confirmed
\* booking on the same date already holds one of its slots.
C30_LegacyConfirmRejected ==
    [][\A id \in 1..MaxBookings :
          ( /\ id \in DOMAIN fileBookings
            /\ fileBookings[id].status # "confirmed"
            /\ LegacySlotHeld(id)
            /\ LegacyPatchBooking(id, "confirmed") )
          => /\ resp'.code >= 400
             /\ fileBookings'[id].status = fileBookings[id].status]_vars

\* item it of booking id is a room rental that a room rental of another pending or
\* confirmed booking, or a class, overlaps on its date
RoomItemBlocked(id, it) ==
    /\ it.itemType = "room_rental"
    /\ \/ \E b \in DOMAIN bookings \ {id} :
            /\ bookings[b].status \in {"pending", "confirmed"}
            /\ \E j \in 1..Len(bookings[b].items) :
                 /\ bookings[b].items[j].itemType = "room_rental"
                 /\ bookings[b].items[j].date = it.date
                 /\ Overlap(bookings[b].items[j].startTime, bookings[b].items[j].endTime,
                            it.startTime, it.endTime)
       \/ \E c \in DOMAIN classes :
            /\ classes[c].date = it.date
            /\ Overlap(classes[c].startTime, classes[c].endTime, it.startTime, it.endTime)

\* item it of booking id references a catalog item whose seats held by the other
\* bookings, with the headcount of it, go beyond the capacity
SeatsItemBlocked(id, it) ==
    /\ it.catalogItemId \in DOMAIN catalog
    /\ SeatsOfActive(bookings, nextBookingId, it.catalogItemId, id) + it.peopleCount
          > catalog[it.catalogItemId].capacity

\* booking id is pending and nothing but its own items stands against confirming it
ConfirmableButForItself(id) ==
    /\ id \in DOMAIN bookings
    /\ bookings[id].status = "pending"
    /\ \A i \in 1..Len(bookings[id].items) :
          /\ ~ RoomItemBlocked(id, bookings[id].items[i])
          /\ ~ SeatsItemBlocked(id, bookings[id].items[i])

\* C31: confirming a pending booking is never rejected because of the booking's own
\* items: when no room rental of another pending or confirmed booking and no class
\* overlaps its items, and the usage of each of its catalog items by the other
\* bookings plus the item's headcount is within capacity, the PATCH to confirmed
\* succeeds and the status becomes confirmed.
C31_OwnItemsNeverBlockConfirm ==
    [][\A id \in 1..MaxBookings, adminNotes \in AdminNotesInputs :
          ( /\ ConfirmableButForItself(id)
            /\ PatchBookingStatus(id, "confirmed", adminNotes) )
          => /\ resp' = [code |-> 200, err |-> ""]
             /\ bookings'[id].status = "confirmed"]_vars

\* a booking was just confirmed whose own item is a room rental, or fills its
\* catalog item to capacity
C31_Witness ==
    /\ resp.code = 200
    /\ \E id \in DOMAIN bookings :
         /\ bookings[id].status = "confirmed"
         /\ bookings[id].confirmedAt = now
         /\ \/ bookings[id].items[1].itemType = "room_rental"
            \/ /\ bookings[id].items[1].catalogItemId \in DOMAIN catalog
               /\ bookings[id].items[1].peopleCount
                     = catalog[bookings[id].items[1].catalogItemId].capacity

\* C32: a PATCH /api/bookings/:id/status with a status outside pending, confirmed,
\* cancelled is answered with an error, and one that names an unknown booking id with
\* a not-found error; in both cases no booking and no booking item is changed.
C32_BadPatchChangesNothing ==
    [][\A id \in 1..MaxBookings, status \in StatusInputs, adminNotes \in AdminNotesInputs :
          PatchBookingStatus(id, status, adminNotes)
          => /\ status \notin {"pending", "confirmed", "cancelled"}
                => (resp'.code = 400 /\ resp'.err # "" /\ bookings' = bookings)
             /\ (status \in {"pending", "confirmed", "cancelled"} /\ id \notin DOMAIN bookings)
                => (resp' = [code |-> 404, err |-> "not_found"] /\ bookings' = bookings)]_vars

\* a PATCH for booking 2 was answered not found while booking 1 is in the store
C32_Witness ==
    /\ resp = [code |-> 404, err |-> "not_found"]
    /\ DOMAIN bookings = {1}
    /\ bookings[1].status = "confirmed"

\* C33: in the file-based server, POST /api/bookings processed while
\* settings.bookingRules.slotInterval is zero or negative is answered with a
\* configuration error (a server-side failure) and no booking is persisted.
C33_NonPositiveIntervalIsConfigError ==
    [][\A payload \in FileRequests :
          ( /\ fileSettings.bookingRules.slotInterval <= 0
            /\ FilePostBooking(payload, fileSettings) )
          => /\ resp' = [code |-> 500, err |-> "server"]
             /\ fileBookings' = fileBookings]_vars

\* the 30-minute slot-start labels from startTime up to endTime
LabelsCovered(startTime, endTime) ==
    { <<t \div 60, t % 60>> :
        t \in { x \in parseTimeToMinutes(startTime)..(parseTimeToMinutes(endTime) - 1) :
                  (x - parseTimeToMinutes(startTime)) % 30 = 0 } }

\* the labels covered by the room rentals of the date in bookings of the status
LabelsOfRentals(date, status) ==
    UNION { LabelsCovered(bookings[b].items[i].startTime, bookings[b].items[i].endTime) :
              <<b, i>> \in { <<b2, i2>> \in (1..MaxBookings) \X (1..2) :
                               /\ b2 \in DOMAIN bookings
                               /\ i2 <= Len(bookings[b2].items)
                               /\ bookings[b2].status = status
                               /\ bookings[b2].items[i2].itemType = "room_rental"
                               /\ bookings[b2].items[i2].date = date } }

\* the labels covered by the classes scheduled on the date
LabelsOfClasses(date) ==
    UNION { LabelsCovered(classes[c].startTime, classes[c].endTime) :
              c \in {x \in DOMAIN classes : classes[x].date = date} }

\* C34: getRentalAvailability(date) returns the 30-minute slot-start labels covered by
\* room_rental items of confirmed bookings and by the classes scheduled on that date
\* in confirmedSlots, those covered by room_rental items of pending bookings in
\* pendingSlots, and the operating hours; cancelled bookings contribute to neither.
C34_AvailabilityShowsRentalsAndClasses ==
    [][\A date \in {6, 7}, clock \in ClockInputs :
          GetAvailability(date, clock)
          => /\ call'.result.confirmedSlots
                    = LabelsOfRentals(date, "confirmed") \cup LabelsOfClasses(date)
             /\ call'.result.pendingSlots = LabelsOfRentals(date, "pending")
             /\ call'.result.openingHours = settings.operatingHours]_vars

\* class c overlaps a room rental of a pending or confirmed booking of table bk
ClassOverlapsRental(bk, cls, c) ==
    \E b \in DOMAIN bk :
        /\ bk[b].status \in {"pending", "confirmed"}
        /\ \E i \in 1..Len(bk[b].items) :
             /\ bk[b].items[i].itemType = "room_rental"
             /\ bk[b].items[i].date = cls[c].date
             /\ Overlap(bk[b].items[i].startTime, bk[b].items[i].endTime,
                        cls[c].startTime, cls[c].endTime)

\* two different classes of table cls overlap
ClassesOverlap(cls, c, d) ==
    /\ c # d
    /\ cls[c].date = cls[d].date
    /\ Overlap(cls[c].startTime, cls[c].endTime, cls[d].startTime, cls[d].endTime)

\* the range of the payload overlaps a class other than ex, or a room rental of a
\* pending or confirmed booking
PayloadOverlaps(payload, ex) ==
    \/ \E c \in DOMAIN classes \ {ex} :
          /\ classes[c].date = payload.date
          /\ Overlap(classes[c].startTime, classes[c].endTime,
                     payload.startTime, payload.endTime)
    \/ \E b \in DOMAIN bookings :
          /\ bookings[b].status \in {"pending", "confirmed"}
          /\ \E i \in 1..Len(bookings[b].items) :
               /\ bookings[b].items[i].itemType = "room_rental"
               /\ bookings[b].items[i].date = payload.date
               /\ Overlap(bookings[b].items[i].startTime, bookings[b].items[i].endTime,
                          payload.startTime, payload.endTime)

\* C35: after any sequence of admin class create and update requests and booking
\* create and status requests, no class overlaps a room_rental item of a pending or
\* confirmed booking on its date and no two classes overlap; a class create or update
\* whose range overlaps either is rejected and the class table is unchanged.
C35_ClassesKeepClearOfRentals ==
    [][ /\ \A c \in DOMAIN classes' :
             /\ ~ ClassOverlapsRental(bookings', classes', c)
             /\ \A d \in DOMAIN classes' : ~ ClassesOverlap(classes', c, d)
        /\ \A payload \in ClassPayloads \cup SmallClassPayloads :
             /\ (PayloadOverlaps(payload, 0) /\ CreateClass(payload))
                   => (resp'.code >= 400 /\ classes' = classes)
             /\ \A id \in DOMAIN classes :
                   (PayloadOverlaps(payload, id) /\ UpdateClass(id, payload))
                   => (resp'.code >= 400 /\ classes' = classes)
      ]_vars

\* the minutes of the slot labels of a create payload
RequestedMinutes(payload) == {(x[1] * 60) + x[2] : x \in RequestedLabels(payload)}

\* the earliest slot of a create payload, in minutes
EarliestMinute(payload) ==
    CHOOSE m \in RequestedMinutes(payload) : \A n \in RequestedMinutes(payload) : m <= n

\* the slots of the payload are distinct and follow each other by interval si, its
\* startTime is the earliest slot, and the range they cover lies in the operating hours
WellFormedSlots(payload, si, hours) ==
    /\ Len(payload.selectedSlots) > 0
    /\ Cardinality(RequestedLabels(payload)) = Len(payload.selectedSlots)
    /\ RequestedMinutes(payload)
          = {EarliestMinute(payload) + (k * si) : k \in 0..(Len(payload.selectedSlots) - 1)}
    /\ (payload.startTime[1] * 60) + payload.startTime[2] = EarliestMinute(payload)
    /\ (hours.startTime[1] * 60) + hours.startTime[2] <= EarliestMinute(payload)
    /\ EarliestMinute(payload) + (Len(payload.selectedSlots) * si)
          <= (hours.endTime[1] * 60) + hours.endTime[2]

\* C36: in the file-based server every booking persisted by POST /api/bookings has
\* distinct selectedSlots consecutive at the configured slot interval, startTime equal
\* to the earliest slot, duration equal to the number of slots times the interval,
\* and lies within the operating hours; a request violating any of these is rejected
\* with a validation error and nothing is persisted.
C36_PersistedSlotsWellFormed ==
    [][\A payload \in FileRequests :
          ( /\ SlotIntervalOf(fileSettings) > 0
            /\ FilePostBooking(payload, fileSettings) )
          => /\ resp'.code = 201
                => /\ WellFormedSlots(payload, SlotIntervalOf(fileSettings),
                                      fileSettings.operatingHours)
                   /\ fileBookings'[nextFileId'].selectedSlots = RequestedLabels(payload)
                   /\ fileBookings'[nextFileId'].startTime = payload.startTime
                   /\ fileBookings'[nextFileId'].duration
                        = Len(payload.selectedSlots) * SlotIntervalOf(fileSettings)
             /\ ~ WellFormedSlots(payload, SlotIntervalOf(fileSettings),
                                  fileSettings.operatingHours)
                => /\ resp' = [code |-> 400, err |-> "validation"]
                   /\ fileBookings' = fileBookings]_vars

\* a booking of two slots was just persisted
C36_Witness ==
    /\ resp.code = 201
    /\ nextFileId \in DOMAIN fileBookings
    /\ Cardinality(fileBookings[nextFileId].selectedSlots) = 2
    /\ fileBookings[nextFileId].duration = 60

\* request p is a create that was answered 201
CreatedBy(p) ==
    /\ inflight[p].phase = "done"
    /\ inflight[p].code = 201

\* request p is a status change that was answered 200
StatusSetBy(p) ==
    /\ inflight[p].phase = "done"
    /\ inflight[p].code = 200

\* C37: in the file-based server, when two POST /api/bookings requests interleave at
\* every awaited file read and write and both are answered with success, both
\* bookings are in bookings.json once both have finished; likewise a concurrently
\* processed status change never removes or reverts a booking written by another
\* request.
C37_ConcurrentWritesKept ==
    (\A p \in Handlers : inflight[p].phase = "done")
    => /\ \A p \in Handlers : CreatedBy(p) => inflight[p].id \in DOMAIN fileBookings
       /\ \A p, q \in Handlers :
            (StatusSetBy(p) /\ StatusSetBy(q) /\ inflight[p].id # inflight[q].id)
            => fileBookings[inflight[p].id].status = inflight[p].status


\* C38: in the file-based server every PATCH /api/bookings/:id/status is answered,
\* whatever settings PUT /api/settings has stored: the slot enumeration of
\* generateSlotsForDuration called by areSlotsAvailable finishes, also when
\* bookingRules.slotInterval is negative
C38_PatchStatusAlwaysResponds ==
    [][\A id \in 1..MaxBookings, status \in StatusInputs :
          FilePatchBookingStatus(id, status, fileSettings) => resp' # NoResponse]_vars


-----------------------------------------------------------------------------
(* Admin authentication of the PostgreSQL-backed server, ADMIN_AUTH_DISABLED false *)

\* the tokens a request may carry, one more than are ever issued
MaxTokens == 2

\* the largest value of the server's clock
MaxDateNow == 4

\* the lifetime of a token, in the units of dateNow
ADMIN_TOKEN_TTL_MS == 2

\* the admin_users rows a login may find; the legacy login gives no id
AdminUsers ==
    { [username |-> "owner", role |-> "super_admin"],
      [username |-> "desk", role |-> "receptionist"],
      [username |-> "legacy_admin", role |-> "super_admin"] }

\* a request without an Authorization header
NoHeader == 0

\* the Authorization header of a request: none, or "Bearer " and a token
AuthHeaders == {NoHeader} \cup (1..(MaxTokens + 1))

\* the environment variable ADMIN_AUTH_DISABLED is not "true"
ADMIN_AUTH_DISABLED == FALSE

\* req.admin of a request on which it was never assigned
NoAdmin == [role |-> NULL, username |-> NULL]

\* what authenticateAdmin leaves behind: whether next() was called and the value
\* of req.admin
Passed(fn, admin) == [fn |-> fn, next |-> TRUE, admin |-> admin]

Stopped(fn) == [fn |-> fn, next |-> FALSE, admin |-> NoAdmin]

\* issueAdminToken, called by POST /api/admin/login once the password is verified;
\* the token is 32 random bytes, here one that is not in the map
issueAdminToken(token, user) ==
    /\ token \notin DOMAIN activeAdminTokens
    /\ activeAdminTokens' =
           Insert(activeAdminTokens, token,
                  [issuedAt |-> dateNow,
                   expiresAt |-> dateNow + ADMIN_TOKEN_TTL_MS,
                   username |-> user.username,
                   role |-> user.role])
    /\ call' = [fn |-> "issueAdminToken", token |-> token, role |-> user.role]
    /\ Respond(200, "")
    /\ UNCHANGED <<store, fileStore, inflight, dateNow>>

\* the server's clock moves on
AdvanceDateNow ==
    /\ dateNow < MaxDateNow
    /\ dateNow' = dateNow + 1
    /\ UNCHANGED <<store, fileStore, resp, inflight, call, activeAdminTokens>>

\* What becomes of the ReferenceError that authenticateAdmin raises: the promise of
\* the async middleware is rejected and nobody handles it. The request is left
\* without a response, or the framework answers 500, or the process ends and the
\* tokens in memory are lost (the state shown is that of the restarted server).
RejectionOutcomes == {"no response", "500", "exit"}

\* authenticateAdmin
authenticateAdmin(authHeader, outcome) ==
    IF ADMIN_AUTH_DISABLED
    THEN /\ call' = Passed("authenticateAdmin", [role |-> "super_admin", username |-> "dev"])
         /\ UNCHANGED <<store, fileStore, resp, inflight, authStore>>
    ELSE IF authHeader = NoHeader
    THEN /\ Respond(401, "Missing Authorization header")
         /\ call' = Stopped("authenticateAdmin")
         /\ UNCHANGED <<store, fileStore, inflight, authStore>>
    ELSE IF authHeader \notin DOMAIN activeAdminTokens
    THEN /\ Respond(401, "Invalid or expired token")
         /\ call' = Stopped("authenticateAdmin")
         /\ UNCHANGED <<store, fileStore, inflight, authStore>>
    ELSE IF dateNow > activeAdminTokens[authHeader].expiresAt
    THEN /\ activeAdminTokens' =
                [t \in DOMAIN activeAdminTokens \ {authHeader} |-> activeAdminTokens[t]]
         /\ Respond(401, "Token expired")
         /\ call' = Stopped("authenticateAdmin")
         /\ UNCHANGED <<store, fileStore, inflight, dateNow>>
    ELSE \* req.admin = { expiresAt: new Date(tokenMetadata.expiresAt)... }: the name
         \* tokenMetadata is not declared anywhere, evaluating it throws, req.admin
         \* is not assigned and next() is not reached
         /\ call' = Stopped("authenticateAdmin")
         /\ resp' = IF outcome = "500" THEN [code |-> 500, err |-> ErrorKind(500, "")]
                    ELSE NoResponse
         /\ activeAdminTokens' = IF outcome = "exit" THEN <<>> ELSE activeAdminTokens
         /\ UNCHANGED <<store, fileStore, inflight, dateNow>>

IssueAdminTokens ==
    \E token \in 1..MaxTokens, user \in AdminUsers :
        issueAdminToken(token, user)

AdvanceDateNows == AdvanceDateNow

AuthenticateAdmins ==
    \E authHeader \in AuthHeaders, outcome \in RejectionOutcomes :
        authenticateAdmin(authHeader, outcome)

NextAuth ==
    \/ IssueAdminTokens
    \/ AdvanceDateNows
    \/ AuthenticateAdmins

\* Logins, the clock and requests to the admin routes.
SpecAuth == Init /\ [][NextAuth]_vars

\* the request carries a token that is in the map and has not expired
TokenValid(authHeader) ==
    /\ authHeader \in DOMAIN activeAdminTokens
    /\ dateNow <= activeAdminTokens[authHeader].expiresAt

\* C39: with admin authentication enabled a request with an issued, unexpired token
\* passes authenticateAdmin, with req.admin carrying the role recorded at issue time;
\* a request with a missing, unknown or expired token is answered 401 and does not
\* reach the handler; an expired token is removed from the map of active tokens
C39_TokenGatesAdminRoutes ==
    [][\A authHeader \in AuthHeaders, outcome \in RejectionOutcomes :
          authenticateAdmin(authHeader, outcome)
          => IF TokenValid(authHeader)
             THEN /\ call'.next
                  /\ call'.admin # NoAdmin
                  /\ call'.admin.role = activeAdminTokens[authHeader].role
             ELSE /\ resp'.code = 401
                  /\ ~call'.next
                  /\ authHeader \notin DOMAIN activeAdminTokens']_vars

====
